---------------------------- MODULE Spec2Model ----------------------------
(***************************************************************************)
(* Model of the pdf_bot streaming chat relay (app/api/chat.py) and of the  *)
(* stream consumer of the NiceGUI page (app/ui/chat_ui.py).                *)
(*                                                                         *)
(* Text is modelled as a sequence of one-character strings, so that the    *)
(* SSE framing, the session marker and the client's split on the blank     *)
(* line work on characters as the Python code does.                        *)
(***************************************************************************)
EXTENDS Integers, Sequences, FiniteSets, TLC

(***************************************************************************)
(* Bounds of the model.                                                    *)
(***************************************************************************)
\* most fragments one producer run yields
MaxFrags == 2
\* most tokens of a byte stream fed directly to the consumer
MaxTokens == 3

(***************************************************************************)
(* Python values.                                                          *)
(***************************************************************************)
\* Python's None, kept comparable with texts (a text holds one-character strings only)
NoneVal == <<"<None>">>

\* str(None), as an f-string renders it
NoneText == <<"N", "o", "n", "e">>

\* the SSE prefix written by generate(), "data: "
DataPrefix == <<"d", "a", "t", "a", ":", " ">>

\* the blank line that ends an SSE frame, "\n\n"
Delim == <<"\n", "\n">>

\* the session marker "__SESSION_ID__:"
Marker == <<"_", "_", "S", "E", "S", "S", "I", "O", "N", "_", "I", "D", "_", "_", ":">>

\* the end of the session marker, "__"
MarkerEnd == <<"_", "_">>

\* '{"error": "Agent error", "detail": "'
ErrHead == <<"{", "\"", "e", "r", "r", "o", "r", "\"", ":", " ", "\"", "A", "g", "e", "n", "t", " ", "e", "r", "r", "o", "r", "\"", ",", " ", "\"", "d", "e", "t", "a", "i", "l", "\"", ":", " ", "\"">>

\* '"}'
ErrTail == <<"\"", "}">>

\* "Failed to create streaming response: "
CreateFailHead == <<"F", "a", "i", "l", "e", "d", " ", "t", "o", " ", "c", "r", "e", "a", "t", "e", " ", "s", "t", "r", "e", "a", "m", "i", "n", "g", " ", "r", "e", "s", "p", "o", "n", "s", "e", ":", " ">>

\* str(v) as the f-strings of chat.py apply it: a text is itself, None is "None"
Str(v) == IF v = NoneVal THEN NoneText ELSE v

\* Python truthiness of a text or None
TruthyText(v) == v # NoneVal /\ v # <<>>

(***************************************************************************)
(* str operations used by the code.                                        *)
(***************************************************************************)
\* s.startswith(p)
StartsWith(s, p) == Len(s) >= Len(p) /\ SubSeq(s, 1, Len(p)) = p

\* first index at which sub occurs in s, 0 when it does not (s.find(sub) + 1)
RECURSIVE FindFrom(_, _, _)
FindFrom(s, sub, i) ==
    IF i + Len(sub) - 1 > Len(s) THEN 0
    ELSE IF SubSeq(s, i, i + Len(sub) - 1) = sub THEN i
    ELSE FindFrom(s, sub, i + 1)

\* sub in s
Contains(s, sub) == FindFrom(s, sub, 1) # 0

\* s.split(sep): the list of the parts of s between the occurrences of sep
RECURSIVE Split(_, _)
Split(s, sep) ==
    LET i == FindFrom(s, sep, 1)
    IN  IF i = 0 THEN <<s>>
        ELSE <<SubSeq(s, 1, i - 1)>> \o Split(SubSeq(s, i + Len(sep), Len(s)), sep)

\* s.split(sep, 1) for an s that contains sep: <<before, after>>
SplitOnce(s, sep) ==
    LET i == FindFrom(s, sep, 1)
    IN  <<SubSeq(s, 1, i - 1), SubSeq(s, i + Len(sep), Len(s))>>

\* the concatenation of a list of texts
RECURSIVE Concat(_)
Concat(ss) == IF ss = <<>> THEN <<>> ELSE Head(ss) \o Concat(Tail(ss))

(***************************************************************************)
(* Inputs: requests, producer behaviour.                                   *)
(***************************************************************************)
\* request.message values
Messages == { <<"H", "e", "l", "l", "o">> }

\* request.session_id values of a direct API caller: absent, empty, two keys
SessionIds == { NoneVal, <<>>, <<"s", "1">>, <<"s", "2">> }

\* values of str(uuid.uuid4()): hexadecimal digits and dashes (shortened)
Uuids == { <<"1", "a", "-", "4">>, <<"2", "b", "-", "4">> }

\* str(e) of the exceptions the producer raises
ErrMsgs == { <<"b", "o", "o", "m">> }

\* str(e) of the exception create_agent raises
CreateErrMsgs == { <<"A", "g", "e", "n", "t", " ", "c", "r", "e", "a", "t", "i", "o", "n", " ", "f", "a", "i", "l", "e", "d">> }

\* str(e) of the TypeError `async for` raises on an object without __aiter__ (shortened)
NotIterableMsg == <<"'", "a", "s", "y", "n", "c", " ", "f", "o", "r", "'">>

\* A fragment (chunk) of the producer: a str, an object with a content
\* attribute (a text or None), or another object (val is its str()).
StrFrag(t) == [shape |-> "str", val |-> t]
ObjFrag(c) == [shape |-> "content", val |-> c]
OtherFrag(t) == [shape |-> "other", val |-> t]

\* plain-text fragments, the empty one and ones with newlines included
TextFrags ==
    { StrFrag(<<"H", "i">>), StrFrag(<<>>), StrFrag(<<"a", "\n">>), StrFrag(<<"\n">>) }

\* non-empty plain-text fragments
NonEmptyTextFrags == { f \in TextFrags : f.val # <<>> }

\* every shape of fragment
Frags ==
    TextFrags \cup
    { ObjFrag(<<"b">>), ObjFrag(<<>>), ObjFrag(NoneVal), OtherFrag(<<"o">>) }

\* bool(chunk): a str is truthy when non-empty, any other object is truthy
Truthy(chunk) == IF chunk.shape = "str" THEN chunk.val # <<>> ELSE TRUE

(***************************************************************************)
(* The relay: stream_chat, generate and _stream_agent_response.            *)
(***************************************************************************)
VARIABLES
    relay,   \* the state of the chat request being served
    ui,      \* the state of the chat page (send_message and its widgets)
    chats,   \* two chat requests served concurrently, and the module globals
    ing,     \* upload ingestion: requests, upload directory, knowledge base
    poll     \* the page's polling of an upload's status (check_upload_status)

vars == <<relay, ui, chats, ing, poll>>

\* faulty variant: a key is generated even when the request supplies one
ResolveAlwaysFresh(session_id, fresh) == fresh

\* chat.py:20  user_id = session_id if session_id else str(uuid.uuid4())
ResolveUserId(session_id, fresh) ==
    IF TruthyText(session_id) THEN session_id ELSE fresh

\* chat.py:38-44  chunk_content: the str itself, chunk.content (a text or
\* None), or str(chunk)
ExtractText(chunk) ==
    CASE chunk.shape = "str" -> chunk.val
      [] chunk.shape = "content" -> chunk.val
      [] OTHER -> Str(chunk.val)

\* chat.py:50  f'\n__SESSION_ID__:{user_id}__'
SessionPayload(user_id) == <<"\n">> \o Marker \o Str(user_id) \o MarkerEnd

\* chat.py:54  f'{{"error": "Agent error", "detail": "{str(e)}"}}'
ErrorPayload(msg) == ErrHead \o msg \o ErrTail

\* faulty variant: the frame ends with one newline instead of a blank line
SseFrameNoBlankLine(payload) == DataPrefix \o Str(payload) \o <<"\n">>

\* chat.py:72  f"data: {chunk}\n\n"
SseFrame(payload) == DataPrefix \o Str(payload) \o Delim

\* one value yielded by _stream_agent_response and written by generate();
\* kind records which yield statement produced it
Emit(r, kind, payload) ==
    [r EXCEPT !.frames = @ \o <<[kind |-> kind, payload |-> payload]>>,
              !.wire = @ \o SseFrame(payload)]

\* faulty variant: the session frame is yielded after the error frame as well
OnExceptionThenSession(r, stage, msg) ==
    [Emit(Emit(r, "error", ErrorPayload(msg)), "session", SessionPayload(r.user_id))
        EXCEPT !.pc = "closed",
               !.failure = [stage |-> stage, n |-> Len(r.frames), msg |-> msg]]

\* faulty variant: the failure is raised as an HTTP error instead of being yielded
OnExceptionHttp500(r, stage, msg) ==
    [r EXCEPT !.pc = "closed", !.status = 500,
              !.failure = [stage |-> stage, n |-> Len(r.frames), msg |-> msg]]

\* chat.py:52-55  except Exception: yield the error payload; the generator ends
OnException(r, stage, msg) ==
    [Emit(r, "error", ErrorPayload(msg))
        EXCEPT !.pc = "closed",
               !.failure = [stage |-> stage, n |-> Len(r.frames), msg |-> msg]]

\* no request yet
IdleRelay ==
    [pc |-> "idle", message |-> <<>>, session_id |-> NoneVal, create |-> "none",
     status |-> 0, detail |-> <<>>, user_id |-> NoneVal, source |-> "none",
     calls |-> <<>>, produced |-> <<>>, frames |-> <<>>, wire |-> <<>>,
     failure |-> [stage |-> "none", n |-> 0, msg |-> <<>>]]

\* faulty variant: the stream is opened although create_agent raised
StreamChatAlwaysOpens(r, msg) == [r EXCEPT !.pc = "open", !.status = 200, !.create = "raise"]

\* chat.py:83-87  create_agent raised: HTTPException 500 with a detail
StreamChatFailed(r, msg) ==
    [r EXCEPT !.pc = "http500", !.status = 500, !.create = "raise",
              !.detail = CreateFailHead \o msg]

\* chat.py:62-81  create_agent returned: a StreamingResponse around generate()
\* (status 200, nothing of the body has run yet)
StreamChatOpened(r) == [r EXCEPT !.pc = "open", !.status = 200, !.create = "ok"]

\* chat.py:58-87  stream_chat for a request {message, session_id}
StreamChat(message, session_id, created, msg) ==
    LET r == [IdleRelay EXCEPT !.message = message, !.session_id = session_id]
    IN  IF created THEN StreamChatOpened(r) ELSE StreamChatFailed(r, msg)

\* faulty variant: agent.arun is called a second time with the same arguments
InvokeTwice(r, fresh, outcome, msg) ==
    LET uid == ResolveUserId(r.session_id, fresh)
        call == [input |-> r.message, user_id |-> uid]
        r1 == [r EXCEPT !.user_id = uid, !.calls = @ \o <<call, call>>]
    IN  CASE outcome = "raise" -> OnException(r1, "invoke", msg)
          [] outcome = "coroutine" -> [r1 EXCEPT !.pc = "await"]
          [] outcome = "asyncgen" -> [r1 EXCEPT !.pc = "iterate", !.source = "asyncgen"]
          [] outcome = "other" -> [r1 EXCEPT !.pc = "iterate", !.source = "other"]

\* chat.py:20-32  the body starts: resolve the key, call agent.arun once;
\* arun raises, or returns a coroutine, or returns something else
Invoke(r, fresh, outcome, msg) ==
    LET uid == ResolveUserId(r.session_id, fresh)
        r1 == [r EXCEPT !.user_id = uid,
                        !.calls = @ \o <<[input |-> r.message, user_id |-> uid]>>]
    IN  CASE outcome = "raise" -> OnException(r1, "invoke", msg)
          [] outcome = "coroutine" -> [r1 EXCEPT !.pc = "await"]
          [] outcome = "asyncgen" -> [r1 EXCEPT !.pc = "iterate", !.source = "asyncgen"]
          [] outcome = "other" -> [r1 EXCEPT !.pc = "iterate", !.source = "other"]

\* faulty variant: the awaited result is not taken as the sequence to iterate
AwaitNotNormalised(r, outcome, msg) == OnException(r, "aiter", NotIterableMsg)

\* chat.py:29-30  await response_coro: it raises, or resolves to an async
\* generator, or resolves to something that is no async iterable
Await(r, outcome, msg) ==
    CASE outcome = "raise" -> OnException(r, "await", msg)
      [] outcome = "asyncgen" -> [r EXCEPT !.pc = "iterate", !.source = "asyncgen"]
      [] outcome = "other" -> [r EXCEPT !.pc = "iterate", !.source = "other"]

\* chat.py:35  `async for` on an object without __aiter__: TypeError
IterateOther(r) == OnException(r, "aiter", NotIterableMsg)

\* chat.py:35-46  the producer yields chunk: skipped when falsy, else its text is yielded
OnChunk(r, chunk) ==
    LET r1 == [r EXCEPT !.produced = @ \o <<chunk>>]
    IN  IF Truthy(chunk) THEN Emit(r1, "content", ExtractText(chunk)) ELSE r1

\* chat.py:48-50  the producer is exhausted: the session frame, then the end
OnExhausted(r) ==
    [Emit(r, "session", SessionPayload(r.user_id)) EXCEPT !.pc = "closed"]

\* faulty variant: an exception of the iteration is swallowed and the stream ends normally
OnRaiseSwallowed(r, msg) ==
    [OnExhausted(r) EXCEPT !.failure = [stage |-> "iterate", n |-> Len(r.frames), msg |-> msg]]

\* chat.py:35  the producer raises while it is iterated
OnRaise(r, msg) == OnException(r, "iterate", msg)

\* str(e) of a CancelledError or GeneratorExit
CancelMsg == <<>>

\* faulty variant: the handler catches BaseException and yields an error frame
OnCancelCaught(r) == [OnException(r, "cancel", CancelMsg) EXCEPT !.pc = "cancelled"]

\* chat.py:15-55  a CancelledError or GeneratorExit reaches the generator at
\* its suspension point: neither is an Exception, so `except Exception` does
\* not run; the generator ends without yielding
OnCancel(r) == [r EXCEPT !.pc = "cancelled"]

(***************************************************************************)
(* Actions of the relay, for requests made directly to the API.            *)
(***************************************************************************)
\* no page is involved
NoUi ==
    [pc |-> "off", session_id |-> NoneVal, enabled |-> TRUE, pos |-> 0,
     buffer |-> <<>>, response_content |-> <<>>, processed |-> <<>>,
     status_label |-> ""]

\* POST /api/chat/stream, create_agent succeeding or raising
ApiStreamChat ==
    /\ relay.pc \in {"idle", "closed", "http500", "cancelled"}
    /\ \E m \in Messages, s \in SessionIds :
         \/ relay' = StreamChat(m, s, TRUE, <<>>)
         \/ \E e \in CreateErrMsgs : relay' = StreamChat(m, s, FALSE, e)
    /\ UNCHANGED <<ui, chats, ing, poll>>

\* the first step of the response body
RelayInvoke ==
    /\ relay.pc = "open"
    /\ \E u \in Uuids :
         \/ \E e \in ErrMsgs : relay' = Invoke(relay, u, "raise", e)
         \/ \E o \in {"coroutine", "asyncgen", "other"} : relay' = Invoke(relay, u, o, <<>>)
    /\ UNCHANGED <<ui, chats, ing, poll>>

\* the awaited handshake
RelayAwait ==
    /\ relay.pc = "await"
    /\ \/ \E e \in ErrMsgs : relay' = Await(relay, "raise", e)
       \/ \E o \in {"asyncgen", "other"} : relay' = Await(relay, o, <<>>)
    /\ UNCHANGED <<ui, chats, ing, poll>>

\* one step of the `async for` over the producer, fragments drawn from F
RelayIterate(F) ==
    /\ relay.pc = "iterate"
    /\ \/ /\ relay.source = "other"
          /\ relay' = IterateOther(relay)
       \/ /\ relay.source = "asyncgen"
          /\ Len(relay.produced) < MaxFrags
          /\ \E f \in F : relay' = OnChunk(relay, f)
       \/ /\ relay.source = "asyncgen"
          /\ \E e \in ErrMsgs : relay' = OnRaise(relay, e)
       \/ /\ relay.source = "asyncgen"
          /\ relay' = OnExhausted(relay)
    /\ UNCHANGED <<ui, chats, ing, poll>>

RelayIterateAny == RelayIterate(Frags)

\* the client goes away while the response is being served: the server
\* cancels the task that iterates the body (CancelledError, or GeneratorExit
\* when the generator is closed at a yield)
Disconnect ==
    /\ relay.pc \in {"open", "await", "iterate"}
    /\ relay' = OnCancel(relay)
    /\ UNCHANGED <<ui, chats, ing, poll>>

\* the parts of the state a specification does not use
NoChats == [reqs |-> <<>>, db |-> "None", knowledge |-> "None"]
NoIng == [pc |-> "off"]
NoPoll == [pc |-> "off"]

Init == relay = IdleRelay /\ ui = NoUi /\ chats = NoChats /\ ing = NoIng /\ poll = NoPoll

Next == ApiStreamChat \/ RelayInvoke \/ RelayAwait \/ RelayIterateAny \/ Disconnect

\* the relay serving requests made directly to the API
Spec == Init /\ [][Next]_vars

(***************************************************************************)
(* The chat page: send_message of create_chat_ui.                          *)
(***************************************************************************)
\* faulty variant: the marker and the key stay in the text displayed
ProcessLineShowsMarker(c, line) ==
    IF ~StartsWith(line, DataPrefix) THEN c
    ELSE LET content == SubSeq(line, Len(DataPrefix) + 1, Len(line))
             parts == Split(content, Marker)
             marked == Contains(content, Marker) /\ Len(parts) > 1
         IN  [c EXCEPT !.session_id = IF marked THEN Split(parts[2], MarkerEnd)[1] ELSE @,
                       !.response_content = @ \o content,
                       !.processed = @ \o <<content>>]

\* chat_ui.py:142-157  one complete line of the buffer: a line that starts
\* with "data: " is processed, any other line is dropped
ProcessLine(c, line) ==
    IF ~StartsWith(line, DataPrefix) THEN c
    ELSE LET content == SubSeq(line, Len(DataPrefix) + 1, Len(line))
             parts == Split(content, Marker)
             marked == Contains(content, Marker) /\ Len(parts) > 1
             shown == IF marked THEN parts[1] ELSE content
         IN  [c EXCEPT !.session_id = IF marked THEN Split(parts[2], MarkerEnd)[1] ELSE @,
                       !.response_content = @ \o shown,
                       !.processed = @ \o <<content>>]

\* chat_ui.py:140-141  while "\n\n" in buffer: line, buffer = buffer.split("\n\n", 1)
RECURSIVE Drain(_)
Drain(c) ==
    IF ~Contains(c.buffer, Delim) THEN c
    ELSE LET lb == SplitOnce(c.buffer, Delim)
         IN  Drain(ProcessLine([c EXCEPT !.buffer = lb[2]], lb[1]))

\* faulty variant: the unfinished rest of the buffer is dropped at the next read
FeedNoCarry(c, chunk) == Drain([c EXCEPT !.buffer = chunk])

\* chat_ui.py:136-159  one network read: buffer += chunk, then the complete lines
Feed(c, chunk) == Drain([c EXCEPT !.buffer = @ \o chunk])

\* chat_ui.py:180  the page as created: no session key, input enabled
FreshUi ==
    [pc |-> "ready", session_id |-> NoneVal, enabled |-> TRUE, pos |-> 0,
     buffer |-> <<>>, response_content |-> <<>>, processed |-> <<>>,
     status_label |-> ""]

\* chat_ui.py:96-128  send_message up to the POST: widgets disabled, a new
\* response label, the request carries the stored session key
Sending(c) ==
    [c EXCEPT !.pc = "awaiting", !.enabled = FALSE, !.pos = 0, !.buffer = <<>>,
              !.response_content = <<>>, !.processed = <<>>,
              !.status_label = "Streaming response..."]

\* the body of an HTTPException as FastAPI writes it, {"detail":"<detail>"}
\* (the details used here hold nothing JSON escapes)
HttpErrorBody(detail) ==
    <<"{", "\"", "d", "e", "t", "a", "i", "l", "\"", ":", "\"">> \o detail \o <<"\"", "}">>

\* chat_ui.py:129-133  a status other than 200: the text
\* f"Error: {status_code} - {body}" is shown, widgets re-enabled
OnNon200(c, r) ==
    [c EXCEPT !.pc = "ready", !.enabled = TRUE,
              !.response_content =
                  <<"E", "r", "r", "o", "r", ":", " ", "5", "0", "0", " ", "-", " ">>
                      \o HttpErrorBody(r.detail),
              !.status_label = "Error occurred"]

\* chat_ui.py:161-172  the body ended: "Response complete", widgets re-enabled
OnBodyEnd(c) ==
    [c EXCEPT !.pc = "ready", !.enabled = TRUE, !.status_label = "Response complete"]

\* the user sends a message; the relay's stream_chat answers the POST
UiSend ==
    /\ ui.pc = "ready" /\ ui.enabled
    /\ \E m \in Messages :
         \/ relay' = StreamChat(m, ui.session_id, TRUE, <<>>)
         \/ \E e \in CreateErrMsgs : relay' = StreamChat(m, ui.session_id, FALSE, e)
    /\ ui' = Sending(ui)
    /\ UNCHANGED <<chats, ing, poll>>

\* the response's status line reaches the page
UiResponse ==
    /\ ui.pc = "awaiting"
    /\ \/ /\ relay.status # 200
          /\ ui' = OnNon200(ui, relay)
       \/ /\ relay.status = 200
          /\ ui' = [ui EXCEPT !.pc = "streaming"]
    /\ UNCHANGED <<relay, chats, ing, poll>>

\* response.aiter_text() hands over the next n characters of the body
UiRead ==
    /\ ui.pc = "streaming"
    /\ \E n \in 1..(Len(relay.wire) - ui.pos) :
         ui' = Feed([ui EXCEPT !.pos = @ + n], SubSeq(relay.wire, ui.pos + 1, ui.pos + n))
    /\ UNCHANGED <<relay, chats, ing, poll>>

\* the body is exhausted
UiEnd ==
    /\ ui.pc = "streaming"
    /\ relay.pc = "closed"
    /\ ui.pos = Len(relay.wire)
    /\ ui' = OnBodyEnd(ui)
    /\ UNCHANGED <<relay, chats, ing, poll>>

RelayIterateText == RelayIterate(TextFrags)

InitUi == relay = IdleRelay /\ ui = FreshUi /\ chats = NoChats /\ ing = NoIng /\ poll = NoPoll

NextUi == UiSend \/ UiResponse \/ UiRead \/ UiEnd \/ RelayInvoke \/ RelayAwait \/ RelayIterateText

\* the chat page talking to the relay, turn after turn
SpecUi == InitUi /\ [][NextUi]_vars

(***************************************************************************)
(* The chat page with the failures of the transport and of the page code.  *)
(***************************************************************************)
\* str(e) of the httpx.RequestError raised by the POST or by a read
TransportErrMsgs == { <<"t", "i", "m", "e", "d", " ", "o", "u", "t">> }

\* "Connection error: "
ConnErrHead == <<"C", "o", "n", "n", "e", "c", "t", "i", "o", "n", " ", "e", "r", "r", "o", "r", ":", " ">>

\* "Error: "
OtherErrHead == <<"E", "r", "r", "o", "r", ":", " ">>

\* faulty variant: the widgets are not re-enabled after a transport failure
OnRequestErrorStaysDisabled(c, msg) ==
    [c EXCEPT !.pc = "ready", !.response_content = ConnErrHead \o msg,
              !.status_label = "Connection failed"]

\* chat_ui.py:163-172  `except httpx.RequestError`, then `finally`
OnRequestError(c, msg) ==
    [c EXCEPT !.pc = "ready", !.enabled = TRUE,
              !.response_content = ConnErrHead \o msg,
              !.status_label = "Connection failed"]

\* chat_ui.py:166-172  `except Exception`, then `finally`
OnOtherException(c, msg) ==
    [c EXCEPT !.pc = "ready", !.enabled = TRUE,
              !.response_content = OtherErrHead \o msg,
              !.status_label = "Error occurred"]

\* chat_ui.py:122-136, 163-165  the POST or a read of the body fails:
\* connection refused or lost, or nothing received for the 60 s timeout
UiTransportError ==
    /\ ui.pc \in {"awaiting", "streaming"}
    /\ \E e \in TransportErrMsgs : ui' = OnRequestError(ui, e)
    /\ UNCHANGED <<relay, chats, ing, poll>>

\* chat_ui.py:135-159, 166-168  any other exception while the body is read
UiOtherError ==
    /\ ui.pc = "streaming"
    /\ \E e \in ErrMsgs : ui' = OnOtherException(ui, e)
    /\ UNCHANGED <<relay, chats, ing, poll>>

\* chat_ui.py:136-137  response.aiter_text() hands over all the relay has
\* written since the last read
UiReadWritten ==
    /\ ui.pc = "streaming"
    /\ ui.pos < Len(relay.wire)
    /\ ui' = Feed([ui EXCEPT !.pos = Len(relay.wire)],
                  SubSeq(relay.wire, ui.pos + 1, Len(relay.wire)))
    /\ UNCHANGED <<relay, chats, ing, poll>>

RelayIterateHi == RelayIterate({StrFrag(<<"H", "i">>)})

NextUiLive ==
    UiSend \/ UiResponse \/ UiReadWritten \/ UiEnd \/ UiTransportError \/ UiOtherError
        \/ RelayInvoke \/ RelayAwait \/ RelayIterateHi

\* the chat page and the relay.  The awaits of send_message end: the POST is
\* answered, a finished body that was read to its end is closed, and a wait
\* that nothing else ends is ended by the 60 s timeout of the client
\* (chat_ui.py:122) as a transport failure
SpecUiLive ==
    /\ InitUi /\ [][NextUiLive]_vars
    /\ WF_vars(UiResponse) /\ WF_vars(UiEnd) /\ WF_vars(UiTransportError)

(***************************************************************************)
(* The consumer alone, fed an arbitrary byte stream in arbitrary reads.    *)
(***************************************************************************)
\* pieces of which the byte streams are made: a content frame, a session
\* frame, a prefix, a newline and a marker without prefix
Tokens ==
    { DataPrefix \o <<"x">> \o Delim,
      DataPrefix \o <<"\n">> \o Marker \o <<"k">> \o MarkerEnd \o Delim,
      DataPrefix,
      <<"\n">>,
      Marker \o <<"k">> \o MarkerEnd }

\* every concatenation of at most MaxTokens pieces
ByteStreams == { Concat(ts) : ts \in UNION { [1..n -> Tokens] : n \in 0..MaxTokens } }

\* chat_ui.py:135  the page when the body of a 200 response starts
StartOfBody == [Sending(FreshUi) EXCEPT !.pc = "streaming"]

\* a response body w, complete
BodyOf(w) == [IdleRelay EXCEPT !.pc = "closed", !.status = 200, !.wire = w]

InitConsumer ==
    /\ \E w \in ByteStreams : relay = BodyOf(w) /\ ui = StartOfBody
    /\ chats = NoChats /\ ing = NoIng /\ poll = NoPoll

NextConsumer == UiRead \/ UiEnd

\* the consumer reading a given body
SpecConsumer == InitConsumer /\ [][NextConsumer]_vars

(***************************************************************************)
(* Two chat requests served concurrently by the one event loop, and the    *)
(* module globals that create_agent reads and writes.                      *)
(***************************************************************************)
\* request.session_id values of the two concurrent requests
TwoSessionIds == { NoneVal, <<"s", "1">> }

\* fragments of the two concurrent producers
TwoFrags == { StrFrag(<<"H", "i">>), ObjFrag(<<"b">>) }

\* agent.py:12, knowledge.py:14-16, config.py:30  `= None`: nothing built yet
NoHandle == 0

\* the functions that hand out the process-wide objects, each named with the
\* global it fills
Getters ==
    [get_settings |-> "settings", get_db |-> "db", get_contents_db |-> "contents_db",
     get_knowledge |-> "knowledge"]

\* agent.py:12, knowledge.py:14-16, config.py:30  the globals at import.  A
\* global holds the number of the object built for it; made counts the
\* objects built, calls and got the calls made and the objects they returned
FreshChats ==
    [reqs |-> <<IdleRelay, IdleRelay>>,
     settings |-> NoHandle, db |-> NoHandle, contents_db |-> NoHandle, knowledge |-> NoHandle,
     made |-> [settings |-> 0, db |-> 0, contents_db |-> 0, knowledge |-> 0],
     calls |-> [f \in DOMAIN Getters |-> 0],
     got |-> [f \in DOMAIN Getters |-> {}]]

\* Settings(), SqliteDb(...), Knowledge(...): a new object, stored in global g
Built(c, g) == [c EXCEPT ![g] = c.made[g] + 1, !.made[g] = @ + 1]

\* faulty variant: a new Settings object at every call
GetSettingsAlwaysNew(c) == Built(c, "settings")

\* config.py:33-38  get_settings
GetSettings(c) == IF c.settings = NoHandle THEN Built(c, "settings") ELSE c

\* agent.py:15-20  get_db: built at the first call, returned afterwards
GetDb(c) == IF c.db = NoHandle THEN Built(c, "db") ELSE c

\* knowledge.py:19-24  get_contents_db
GetContentsDb(c) == IF c.contents_db = NoHandle THEN Built(c, "contents_db") ELSE c

\* knowledge.py:27-50  get_knowledge when the embedder or the vector
\* database cannot be built: only get_settings has run
GetKnowledgeRaisesEarly(c) == IF c.knowledge = NoHandle THEN GetSettings(c) ELSE c

\* knowledge.py:27-61  get_knowledge when Knowledge(...) raises: get_settings
\* and get_contents_db have run
GetKnowledgeRaisesLate(c) ==
    IF c.knowledge = NoHandle THEN GetContentsDb(GetSettings(c)) ELSE c

\* knowledge.py:27-63  get_knowledge: builds the contents database and the
\* knowledge base at the first call
GetKnowledge(c) ==
    IF c.knowledge = NoHandle THEN Built(GetContentsDb(GetSettings(c)), "knowledge") ELSE c

\* agent.py:23-48  create_agent: get_settings, get_db, get_knowledge, then
\* the model and the Agent; it returns ("ok") or raises at one of these steps
CreateAgent(c, outcome) ==
    CASE outcome = "raise_db" -> GetSettings(c)
      [] outcome = "raise_knowledge" -> GetKnowledgeRaisesEarly(GetDb(GetSettings(c)))
      [] outcome \in {"raise_agent", "ok"} -> GetKnowledge(GetDb(GetSettings(c)))

\* main.py:15  the globals once app.main is imported: get_settings has run
ServerChats == GetSettings(FreshChats)

\* the ways create_agent ends
CreateOutcomes == {"ok", "raise_db", "raise_knowledge", "raise_agent"}

\* faulty variant: the resolved key is kept in a module global shared by the requests
PutReqSharedKey(c, i, r) ==
    [c EXCEPT !.reqs = [j \in DOMAIN @ |->
                          IF j = i THEN r ELSE [@[j] EXCEPT !.user_id = r.user_id]]]

\* chat.py:13-72  the state of request i lives in the locals of its own
\* coroutine and generators
PutReq(c, i, r) == [c EXCEPT !.reqs[i] = r]

\* chat.py:58-87  stream_chat for request i
TwoStreamChat(i) ==
    /\ chats.reqs[i].pc = "idle"
    /\ \E m \in Messages, sid \in TwoSessionIds, o \in CreateOutcomes, e \in CreateErrMsgs :
         chats' = PutReq(CreateAgent(chats, o), i, StreamChat(m, sid, o = "ok", e))
    /\ UNCHANGED <<relay, ui, ing, poll>>

\* chat.py:20-32  the body of request i starts
TwoInvoke(i) ==
    /\ chats.reqs[i].pc = "open"
    /\ \E u \in Uuids :
         \/ \E e \in ErrMsgs : chats' = PutReq(chats, i, Invoke(chats.reqs[i], u, "raise", e))
         \/ \E o \in {"coroutine", "asyncgen"} :
              chats' = PutReq(chats, i, Invoke(chats.reqs[i], u, o, <<>>))
    /\ UNCHANGED <<relay, ui, ing, poll>>

\* chat.py:29-30  the awaited handshake of request i
TwoAwait(i) ==
    /\ chats.reqs[i].pc = "await"
    /\ chats' = PutReq(chats, i, Await(chats.reqs[i], "asyncgen", <<>>))
    /\ UNCHANGED <<relay, ui, ing, poll>>

\* chat.py:35-55  one step of the `async for` of request i
TwoIterate(i) ==
    /\ chats.reqs[i].pc = "iterate"
    /\ \/ /\ Len(chats.reqs[i].produced) < MaxFrags
          /\ \E f \in TwoFrags : chats' = PutReq(chats, i, OnChunk(chats.reqs[i], f))
       \/ \E e \in ErrMsgs : chats' = PutReq(chats, i, OnRaise(chats.reqs[i], e))
       \/ chats' = PutReq(chats, i, OnExhausted(chats.reqs[i]))
    /\ UNCHANGED <<relay, ui, ing, poll>>

InitTwo == relay = IdleRelay /\ ui = NoUi /\ chats = ServerChats /\ ing = NoIng /\ poll = NoPoll

NextTwo == \E i \in 1..2 : TwoStreamChat(i) \/ TwoInvoke(i) \/ TwoAwait(i) \/ TwoIterate(i)

\* two requests interleaved at their suspension points
SpecTwo == InitTwo /\ [][NextTwo]_vars

(***************************************************************************)
(* Calls of get_settings, get_db, get_contents_db and get_knowledge.       *)
(***************************************************************************)
\* calls made of each function
MaxCalls == 2

\* the call of f returned the object now held by its global
Returned(c, f) ==
    [c EXCEPT !.calls[f] = @ + 1, !.got[f] = @ \cup {c[Getters[f]]}]

\* the call of f raised
Raised(c, f) == [c EXCEPT !.calls[f] = @ + 1]

\* config.py:33-38  a call of get_settings: it returns, or Settings() raises
CallGetSettings ==
    /\ chats.calls.get_settings < MaxCalls
    /\ \/ chats' = Returned(GetSettings(chats), "get_settings")
       \/ chats.settings = NoHandle /\ chats' = Raised(chats, "get_settings")
    /\ UNCHANGED <<relay, ui, ing, poll>>

\* agent.py:15-20  a call of get_db: it returns, or SqliteDb() raises
CallGetDb ==
    /\ chats.calls.get_db < MaxCalls
    /\ \/ chats' = Returned(GetDb(chats), "get_db")
       \/ chats.db = NoHandle /\ chats' = Raised(chats, "get_db")
    /\ UNCHANGED <<relay, ui, ing, poll>>

\* knowledge.py:19-24  a call of get_contents_db
CallGetContentsDb ==
    /\ chats.calls.get_contents_db < MaxCalls
    /\ \/ chats' = Returned(GetContentsDb(chats), "get_contents_db")
       \/ chats.contents_db = NoHandle /\ chats' = Raised(chats, "get_contents_db")
    /\ UNCHANGED <<relay, ui, ing, poll>>

\* knowledge.py:27-63  a call of get_knowledge: it returns, or raises before
\* or after get_contents_db
CallGetKnowledge ==
    /\ chats.calls.get_knowledge < MaxCalls
    /\ \/ chats' = Returned(GetKnowledge(chats), "get_knowledge")
       \/ /\ chats.knowledge = NoHandle
          /\ \/ chats' = Raised(GetKnowledgeRaisesEarly(chats), "get_knowledge")
             \/ chats' = Raised(GetKnowledgeRaisesLate(chats), "get_knowledge")
    /\ UNCHANGED <<relay, ui, ing, poll>>

InitCalls == relay = IdleRelay /\ ui = NoUi /\ chats = FreshChats /\ ing = NoIng /\ poll = NoPoll

NextCalls == CallGetSettings \/ CallGetDb \/ CallGetContentsDb \/ CallGetKnowledge

\* any sequence of calls of the four functions in one process
SpecCalls == InitCalls /\ [][NextCalls]_vars

(***************************************************************************)
(* The same request sent to POST /chat/stream and to POST /chat/.          *)
(***************************************************************************)
\* faulty variant: the alias drops the session key of the request
ChatDropsSession(message, session_id, created, msg) ==
    StreamChat(message, NoneVal, created, msg)

\* chat.py:90-93  chat: `return await stream_chat(request)`
Chat(message, session_id, created, msg) == StreamChat(message, session_id, created, msg)

\* chat.py:58-93  request 1 is sent to /chat/stream and request 2, with the
\* same body and the same outcome of create_agent, to /chat/
AliasStart ==
    /\ \A i \in 1..2 : chats.reqs[i].pc = "idle"
    /\ \E m \in Messages, sid \in TwoSessionIds, o \in CreateOutcomes, e \in CreateErrMsgs :
         chats' = PutReq(PutReq(CreateAgent(chats, o), 1, StreamChat(m, sid, o = "ok", e)),
                         2, Chat(m, sid, o = "ok", e))
    /\ UNCHANGED <<relay, ui, ing, poll>>

NextAlias == AliasStart \/ \E i \in 1..2 : TwoInvoke(i) \/ TwoAwait(i) \/ TwoIterate(i)

\* one request body served by both endpoints
SpecAlias == InitTwo /\ [][NextAlias]_vars

(***************************************************************************)
(* A producer that returns a coroutine and one that returns an async       *)
(* generator, given the same request.                                      *)
(***************************************************************************)
\* chat.py:58-81  the same request is sent twice; both agents are built
ShapesStart ==
    /\ \A i \in 1..2 : chats.reqs[i].pc = "idle"
    /\ \E m \in Messages, sid \in TwoSessionIds :
         chats' = PutReq(PutReq(CreateAgent(chats, "ok"), 1, StreamChat(m, sid, TRUE, <<>>)),
                         2, StreamChat(m, sid, TRUE, <<>>))
    /\ UNCHANGED <<relay, ui, ing, poll>>

\* chat.py:20-32  arun of request 1 returns a coroutine, arun of request 2
\* an async generator
ShapesInvoke(i) ==
    /\ chats.reqs[i].pc = "open"
    /\ \E u \in Uuids :
         chats' = PutReq(chats, i, Invoke(chats.reqs[i], u,
                                          IF i = 1 THEN "coroutine" ELSE "asyncgen", <<>>))
    /\ UNCHANGED <<relay, ui, ing, poll>>

NextShapes == ShapesStart \/ \E i \in 1..2 : ShapesInvoke(i) \/ TwoAwait(i) \/ TwoIterate(i)

\* the two shapes of producer side by side
SpecShapes == InitTwo /\ [][NextShapes]_vars

(***************************************************************************)
(* Upload ingestion: upload_pdf, get_upload_status and list_uploads, the   *)
(* upload directory, the knowledge base they call and the event loop that  *)
(* runs them.                                                              *)
(***************************************************************************)
\* str.lower() on the letters the file names use
LowerChar(c) ==
    CASE c = "A" -> "a" [] c = "P" -> "p" [] c = "D" -> "d" [] c = "F" -> "f" [] OTHER -> c

\* s.lower()
Lower(s) == [k \in 1..Len(s) |-> LowerChar(s[k])]

\* s.endswith(suffix)
EndsWith(s, suffix) ==
    Len(s) >= Len(suffix) /\ SubSeq(s, Len(s) - Len(suffix) + 1, Len(s)) = suffix

\* ".pdf"
PdfSuffix == <<".", "p", "d", "f">>

\* faulty variant: the suffix is compared without lower()
IsPdfNameCaseSensitive(filename) == TruthyText(filename) /\ EndsWith(filename, PdfSuffix)

\* upload.py:26  the negation of `not file.filename or not file.filename.lower().endswith(".pdf")`
IsPdfName(filename) == TruthyText(filename) /\ EndsWith(Lower(filename), PdfSuffix)

\* file.filename of an upload: missing, empty, and names with and without the suffix
Filenames == { NoneVal, <<>>, <<"a", ".", "p", "d", "f">>, <<"a", ".", "P", "D", "F">>, <<"a", ".", "t", "x", "t">>, <<"p", "d", "f">> }

\* the bytes each of the two uploads carries
UploadBodies == << <<"%", "1">>, <<"%", "2">> >>

\* "Only PDF files are allowed"
OnlyPdfDetail == <<"O", "n", "l", "y", " ", "P", "D", "F", " ", "f", "i", "l", "e", "s", " ", "a", "r", "e", " ", "a", "l", "l", "o", "w", "e", "d">>

\* "Failed to upload PDF: "
UploadFailHead == <<"F", "a", "i", "l", "e", "d", " ", "t", "o", " ", "u", "p", "l", "o", "a", "d", " ", "P", "D", "F", ":", " ">>

\* faulty variant: the file is stored under the original name alone
FilePathNoPrefix(file_id, filename) == filename

\* upload.py:35  f"{file_id}_{file.filename}" under UPLOAD_DIR
FilePath(file_id, filename) == file_id \o <<"_">> \o filename

\* open(path, "wb") and f.write(bytes): the file at path now holds bytes
WriteFile(files, path, bytes) ==
    [p \in (DOMAIN files) \cup {path} |-> IF p = path THEN bytes ELSE files[p]]

\* upload.py:76-77  `if file_path.exists(): file_path.unlink()`
Unlink(files, path) == [p \in (DOMAIN files) \ {path} |-> files[p]]

\* the files of the upload directory: none
NoFiles == [p \in {} |-> <<>>]

\* an upload request that has not reached the handler
IdleUpload ==
    [pc |-> "idle", filename |-> NoneVal, file_id |-> NoneVal, path |-> NoneVal,
     status |-> 0, detail |-> <<>>, worker |-> "none", answer |-> NoneVal]

\* a status or list request that has not reached its handler
IdleLookup ==
    [pc |-> "idle", kind |-> "none", file_id |-> NoneVal, listed |-> <<>>, at |-> 0,
     uploads |-> <<>>, status |-> 0, detail |-> <<>>, body |-> <<>>]

\* upload.py:18-19  the state at start: an empty upload directory, no content
FreshIng ==
    [ups |-> <<IdleUpload, IdleUpload>>, q |-> IdleLookup, files |-> NoFiles,
     contents |-> <<>>, loop |-> "free"]

\* upload.py:74-82  `except Exception`: the stored file is removed and the
\* request is answered 500
UploadFailed(g, i, msg) ==
    [g EXCEPT !.files = Unlink(@, g.ups[i].path),
              !.ups[i].pc = "http500", !.ups[i].status = 500,
              !.ups[i].detail = UploadFailHead \o msg]

\* upload.py:22-39  validation, the generated name, open(); the handler then
\* waits for `await file.read()`.  opened = FALSE: open() raises msg
BeginUpload(g, i, filename, fresh, opened, msg) ==
    IF ~IsPdfName(filename)
    THEN [g EXCEPT !.ups[i].pc = "http400", !.ups[i].filename = filename,
                   !.ups[i].status = 400, !.ups[i].detail = OnlyPdfDetail]
    ELSE LET path == FilePath(fresh, filename)
             named == [g EXCEPT !.ups[i].filename = filename, !.ups[i].file_id = fresh,
                                !.ups[i].path = path]
         IN  IF opened
             THEN [named EXCEPT !.ups[i].pc = "reading", !.files = WriteFile(@, path, <<>>)]
             ELSE UploadFailed(named, i, msg)

\* upload.py:39-62  file.read() returns, f.write, get_knowledge,
\* get_pdf_reader, and the indexing call handed to the executor; the handler
\* then waits for it.  outcome names the step that raises msg, or "ok"
WriteAndSubmit(g, i, outcome, msg) ==
    CASE outcome = "read_raises" -> UploadFailed(g, i, msg)
      [] outcome = "write_raises" ->
           UploadFailed([g EXCEPT !.files = WriteFile(@, g.ups[i].path, <<UploadBodies[i][1]>>)],
                        i, msg)
      [] outcome = "knowledge_raises" ->
           UploadFailed([g EXCEPT !.files = WriteFile(@, g.ups[i].path, UploadBodies[i])], i, msg)
      [] outcome = "ok" ->
           [g EXCEPT !.files = WriteFile(@, g.ups[i].path, UploadBodies[i]),
                     !.ups[i].pc = "indexing", !.ups[i].worker = "running"]

\* the ways the steps between read() and the executor end
WriteOutcomes == {"ok", "read_raises", "write_raises", "knowledge_raises"}

\* faulty variant: the filename is registered in lower case
UploadMetadataLowered(u) ==
    [filename |-> Lower(u.filename), file_id |-> u.file_id, type |-> "pdf"]

\* upload.py:55-59  the metadata handed to add_content
UploadMetadata(u) == [filename |-> u.filename, file_id |-> u.file_id, type |-> "pdf"]

\* faulty variant: adding a content puts every stored content back to processing
AddContentResetsAll(contents, metadata, st) ==
    [k \in 1..Len(contents) |-> [contents[k] EXCEPT !.status = "processing"]]
        \o <<[id |-> Len(contents) + 1, metadata |-> metadata, status |-> st]>>

\* upload.py:52-60  knowledge.add_content: the knowledge base stores a new
\* content with the metadata given and the status it assigns
AddContent(contents, metadata, st) ==
    Append(contents, [id |-> Len(contents) + 1, metadata |-> metadata, status |-> st])

\* upload.py:49-62  the executor thread runs knowledge.add_content to its
\* end: it returns (stored, status st) or raises.  A handler cancelled in the
\* meantime is leaving `with ThreadPoolExecutor()`, whose exit joins this
\* thread on the event loop: the loop is released now
WorkerDone(g, i, result, st) ==
    LET added == IF result = "returned"
                 THEN [g EXCEPT !.contents = AddContent(@, UploadMetadata(g.ups[i]), st)]
                 ELSE g
    IN  IF g.ups[i].pc = "cancel_wait"
        THEN [added EXCEPT !.ups[i].worker = result, !.ups[i].pc = "cancelled",
                           !.loop = "free"]
        ELSE [added EXCEPT !.ups[i].worker = result]

\* "PDF uploaded and processed successfully"
UploadOkDetail == <<"P", "D", "F", " ", "u", "p", "l", "o", "a", "d", "e", "d", " ", "a", "n", "d", " ", "p", "r", "o", "c", "e", "s", "s", "e", "d", " ", "s", "u", "c", "c", "e", "s", "s", "f", "u", "l", "l", "y">>

\* upload.py:50-82  the awaited indexing call is over: 200 with the file_id,
\* or the exception of the call handled by `except Exception`
ResumeUpload(g, i, msg) ==
    IF g.ups[i].worker = "returned"
    THEN [g EXCEPT !.ups[i].pc = "http200", !.ups[i].status = 200,
                   !.ups[i].detail = UploadOkDetail,
                   !.ups[i].answer = [file_id |-> g.ups[i].file_id,
                                      filename |-> g.ups[i].filename,
                                      status |-> "processing"]]
    ELSE UploadFailed(g, i, msg)

\* upload.py:32-82  the request task is cancelled while the handler waits:
\* CancelledError is raised at the await.  It is not an Exception, so the
\* handler of line 74 does not run.  Raised at `await run_in_executor`, it
\* leaves `with ThreadPoolExecutor()` (line 50), whose exit is
\* shutdown(wait=True): the event loop thread joins the executor thread
CancelUpload(g, i) ==
    IF g.ups[i].pc = "indexing" /\ g.ups[i].worker = "running"
    THEN [g EXCEPT !.ups[i].pc = "cancel_wait", !.loop = "blocked"]
    ELSE [g EXCEPT !.ups[i].pc = "cancelled"]

\* "Failed to get status: "
StatusFailHead == <<"F", "a", "i", "l", "e", "d", " ", "t", "o", " ", "g", "e", "t", " ", "s", "t", "a", "t", "u", "s", ":", " ">>

\* "Failed to list uploads: "
ListFailHead == <<"F", "a", "i", "l", "e", "d", " ", "t", "o", " ", "l", "i", "s", "t", " ", "u", "p", "l", "o", "a", "d", "s", ":", " ">>

\* upload.py:120  f"File with ID {file_id} not found"
NotFoundDetail(file_id) == <<"F", "i", "l", "e", " ", "w", "i", "t", "h", " ", "I", "D", " ">> \o file_id \o <<" ", "n", "o", "t", " ", "f", "o", "u", "n", "d">>

\* the file_id of a status request: the generated ids and one never generated
LookupIds == Uuids \cup { <<"z", "z">> }

\* a content stored by another client of the knowledge base, without metadata
ForeignContent ==
    [id |-> 1, metadata |-> [filename |-> NoneVal, file_id |-> NoneVal, type |-> "none"],
     status |-> "completed"]

\* upload.py:100-101  the first content of the list whose metadata file_id is
\* the requested one (its index, 0 when there is none)
FirstMatch(listed, file_id) ==
    LET hits == {k \in 1..Len(listed) : listed[k].metadata.file_id = file_id}
    IN  IF hits = {} THEN 0 ELSE CHOOSE k \in hits : \A j \in hits : k <= j

\* upload.py:152-153  the next content at or after index from whose metadata
\* type is "pdf" (0 when there is none)
NextPdf(listed, from) ==
    LET hits == {k \in from..Len(listed) : listed[k].metadata.type = "pdf"}
    IN  IF hits = {} THEN 0 ELSE CHOOSE k \in hits : \A j \in hits : k <= j

\* upload.py:124-129, 171-175  `except Exception` of the two handlers
LookupFailed(g, msg) ==
    [g EXCEPT !.q.pc = "http500", !.q.status = 500,
              !.q.detail = (IF g.q.kind = "status" THEN StatusFailHead ELSE ListFailHead) \o msg]

\* faulty variant: the HTTPException falls into the generic handler
OnHttpExceptionAs500(g, code, detail) == LookupFailed(g, detail)

\* upload.py:122-123  `except HTTPException: raise`
OnHttpException(g, code, detail) ==
    [g EXCEPT !.q.pc = "http404", !.q.status = code, !.q.detail = detail]

\* upload.py:85-98, 132-145  the handler starts: get_knowledge, and
\* get_content handed to the executor.  started = FALSE: get_knowledge raises
BeginLookup(g, kind, file_id, started, msg) ==
    LET q == [IdleLookup EXCEPT !.kind = kind, !.file_id = file_id]
    IN  IF started
        THEN [g EXCEPT !.q = [q EXCEPT !.pc = "listing"]]
        ELSE LookupFailed([g EXCEPT !.q = q], msg)

\* faulty variant: total is the count the knowledge base reports
ListAnswerPipelineTotal(g) ==
    [g EXCEPT !.q.pc = "http200", !.q.status = 200,
              !.q.body = [uploads |-> g.q.uploads, total |-> Len(g.q.listed)]]

\* upload.py:162-168  the answer of list_uploads
ListAnswer(g) ==
    [g EXCEPT !.q.pc = "http200", !.q.status = 200,
              !.q.body = [uploads |-> g.q.uploads, total |-> Len(g.q.uploads)]]

\* upload.py:95-121, 142-168  get_content is over.  Returned: the handler
\* holds the list and looks for the (next) content to ask the status of
OnListed(g, returned, msg) ==
    IF ~returned THEN LookupFailed(g, msg)
    ELSE LET listed == g.contents
             at == IF g.q.kind = "status" THEN FirstMatch(listed, g.q.file_id)
                   ELSE NextPdf(listed, 1)
             held == [g EXCEPT !.q.listed = listed, !.q.at = at]
         IN  CASE at # 0 -> [held EXCEPT !.q.pc = "status_wait"]
               [] at = 0 /\ g.q.kind = "status" ->
                    OnHttpException(held, 404, NotFoundDetail(g.q.file_id))
               [] OTHER -> ListAnswer(held)

\* knowledge.get_content_status(content.id): the status the knowledge base
\* holds for the content now
ContentStatus(contents, id) == contents[id].status

\* upload.py:103-117, 155-160  get_content_status is over
OnStatus(g, returned, msg) ==
    IF ~returned THEN LookupFailed(g, msg)
    ELSE LET item == g.q.listed[g.q.at]
             st == ContentStatus(g.contents, item.id)
         IN  IF g.q.kind = "status"
             THEN [g EXCEPT !.q.pc = "http200", !.q.status = 200,
                            !.q.body = [file_id |-> g.q.file_id, status |-> st]]
             ELSE LET more == [g EXCEPT !.q.uploads =
                                   Append(@, [file_id |-> item.metadata.file_id,
                                              filename |-> item.metadata.filename,
                                              status |-> st]),
                                 !.q.at = NextPdf(g.q.listed, g.q.at + 1)]
                  IN  IF more.q.at = 0 THEN ListAnswer(more) ELSE more

\* the file_ids generated so far
UsedIds(g) == {g.ups[i].file_id : i \in 1..2} \ {NoneVal}

\* upload.py:22-39  upload i reaches the handler
UploadStart(i) ==
    /\ ing.loop = "free"
    /\ ing.ups[i].pc = "idle"
    /\ \E f \in Filenames, u \in Uuids \ UsedIds(ing), opened \in BOOLEAN, e \in ErrMsgs :
         ing' = BeginUpload(ing, i, f, u, opened, e)
    /\ UNCHANGED <<relay, ui, chats, poll>>

\* upload.py:39-62  upload i resumes after file.read()
UploadSubmit(i) ==
    /\ ing.loop = "free"
    /\ ing.ups[i].pc = "reading"
    /\ \E o \in WriteOutcomes, e \in ErrMsgs : ing' = WriteAndSubmit(ing, i, o, e)
    /\ UNCHANGED <<relay, ui, chats, poll>>

\* upload.py:52-60  the executor thread of upload i ends its add_content call
Worker(i) ==
    /\ ing.ups[i].worker = "running"
    /\ \E result \in {"returned", "raised"}, st \in {"processing", "completed"} :
         ing' = WorkerDone(ing, i, result, st)
    /\ UNCHANGED <<relay, ui, chats, poll>>

\* upload.py:50-82  upload i resumes after the indexing call
UploadResume(i) ==
    /\ ing.loop = "free"
    /\ ing.ups[i].pc = "indexing"
    /\ ing.ups[i].worker \in {"returned", "raised"}
    /\ \E e \in ErrMsgs : ing' = ResumeUpload(ing, i, e)
    /\ UNCHANGED <<relay, ui, chats, poll>>

\* upload.py:32-82  the task of upload i is cancelled at one of its awaits
UploadCancelled(i) ==
    /\ ing.loop = "free"
    /\ ing.ups[i].pc \in {"reading", "indexing"}
    /\ ing' = CancelUpload(ing, i)
    /\ UNCHANGED <<relay, ui, chats, poll>>

\* upload.py:85-98, 132-145  a status or list request reaches its handler
LookupStart ==
    /\ ing.loop = "free"
    /\ ing.q.pc \in {"idle", "http200", "http404", "http500"}
    /\ \E kind \in {"status", "list"}, f \in LookupIds, started \in BOOLEAN, e \in ErrMsgs :
         ing' = BeginLookup(ing, kind, IF kind = "status" THEN f ELSE NoneVal, started, e)
    /\ UNCHANGED <<relay, ui, chats, poll>>

\* upload.py:95-121, 142-168  the request resumes after get_content
LookupListed ==
    /\ ing.loop = "free"
    /\ ing.q.pc = "listing"
    /\ \E returned \in BOOLEAN, e \in ErrMsgs : ing' = OnListed(ing, returned, e)
    /\ UNCHANGED <<relay, ui, chats, poll>>

\* upload.py:103-117, 155-160  the request resumes after get_content_status
LookupStatus ==
    /\ ing.loop = "free"
    /\ ing.q.pc = "status_wait"
    /\ \E returned \in BOOLEAN, e \in ErrMsgs : ing' = OnStatus(ing, returned, e)
    /\ UNCHANGED <<relay, ui, chats, poll>>

\* the knowledge base ends the processing of a content
PipelineAdvance ==
    /\ \E k \in 1..Len(ing.contents), st \in {"completed", "failed"} :
         /\ ing.contents[k].status = "processing"
         /\ ing' = [ing EXCEPT !.contents[k].status = st]
    /\ UNCHANGED <<relay, ui, chats, poll>>

\* chat.py:58-81  a chat stream served by the same event loop
LoopChat ==
    /\ ing.loop = "free"
    /\ \/ relay.pc = "idle" /\ \E m \in Messages : relay' = StreamChat(m, <<"s", "1">>, TRUE, <<>>)
       \/ relay.pc = "open" /\ \E u \in Uuids : relay' = Invoke(relay, u, "asyncgen", <<>>)
       \/ /\ relay.pc = "iterate"
          /\ Len(relay.produced) < MaxFrags
          /\ relay' = OnChunk(relay, StrFrag(<<"H", "i">>))
       \/ relay.pc = "iterate" /\ relay' = OnExhausted(relay)
    /\ UNCHANGED <<ui, chats, ing, poll>>

InitIngest ==
    /\ relay = IdleRelay /\ ui = NoUi /\ chats = NoChats
    /\ \E cs \in {<<>>, <<ForeignContent>>} : ing = [FreshIng EXCEPT !.contents = cs]
    /\ poll = NoPoll

NextIngest ==
    \/ \E i \in 1..2 : UploadStart(i) \/ UploadSubmit(i) \/ Worker(i) \/ UploadResume(i)
                          \/ UploadCancelled(i)
    \/ LoopChat

\* two uploads and a chat stream on one event loop, with the executor
\* threads of the uploads
SpecIngest == InitIngest /\ [][NextIngest]_vars

NextLookup ==
    \/ \E i \in 1..2 : UploadStart(i) \/ UploadSubmit(i) \/ Worker(i) \/ UploadResume(i)
    \/ LookupStart \/ LookupListed \/ LookupStatus
    \/ PipelineAdvance

\* uploads, status and list requests, and the knowledge base advancing the
\* contents it stores
SpecLookup == InitIngest /\ [][NextLookup]_vars

(***************************************************************************)
(* The relay with producers whose exception messages hold the characters   *)
(* JSON escapes.                                                           *)
(***************************************************************************)
\* str(e) of the exceptions raised: boom, a"b, a\nb (backslash, n) and a
\* message of two lines
RaisedMsgs ==
    { <<"b", "o", "o", "m">>, <<"a", "\"", "b">>, <<"a", "\\", "n", "b">>, <<"a", "\n", "b">> }

\* chat.py:20-27  the producer raises at the invocation
RelayInvokeRaises ==
    /\ relay.pc = "open"
    /\ \E u \in Uuids, e \in RaisedMsgs : relay' = Invoke(relay, u, "raise", e)
    /\ UNCHANGED <<ui, chats, ing, poll>>

\* chat.py:35-55  the producer raises during the iteration
RelayIterateRaises ==
    /\ relay.pc = "iterate"
    /\ \E e \in RaisedMsgs : relay' = OnRaise(relay, e)
    /\ UNCHANGED <<ui, chats, ing, poll>>

NextRaise ==
    ApiStreamChat \/ RelayInvoke \/ RelayAwait \/ RelayIterateHi
        \/ RelayInvokeRaises \/ RelayIterateRaises

\* the relay serving producers that raise
SpecRaise == Init /\ [][NextRaise]_vars

(***************************************************************************)
(* The chat page when the producer's text itself holds the session marker. *)
(***************************************************************************)
\* a fragment of the producer whose text is "__SESSION_ID__:x__", as an
\* answer that quotes the marker
QuotingFrag == StrFrag(Marker \o <<"x">> \o MarkerEnd)

RelayIterateQuoting == RelayIterate({StrFrag(<<"H", "i">>), QuotingFrag})

NextTurns ==
    UiSend \/ UiResponse \/ UiReadWritten \/ UiEnd \/ UiTransportError
        \/ RelayInvoke \/ RelayAwait \/ RelayIterateQuoting

\* the chat page and the relay, turn after turn, with failing turns
SpecTurns == InitUi /\ [][NextTurns]_vars

(***************************************************************************)
(* One chat page and the invocations of send_message its events start.     *)
(***************************************************************************)
\* the number of click / Enter events of the user that start send_message
MaxEvents == 3

\* the number of writes to the response label and to the session key
MaxWrites == 3

\* chat_ui.py:175-215  the page as built: widgets enabled, input empty, no
\* invocation of send_message yet
FreshPage ==
    [pc |-> "page", enabled |-> TRUE, value |-> <<>>,
     turns |-> [i \in 1..MaxEvents |-> "none"], writes |-> <<>>]

\* faulty variant: the input is not cleared before the first suspension point
SendMessageStartKeepsInput(c, i) ==
    IF c.value = <<>> THEN [c EXCEPT !.turns[i] = "returned"]
    ELSE [c EXCEPT !.turns[i] = "inflight", !.enabled = FALSE]

\* chat_ui.py:96-128  send_message up to its first suspension point: return
\* on an empty input; otherwise disable both widgets, clear the input, POST
SendMessageStart(c, i) ==
    IF c.value = <<>> THEN [c EXCEPT !.turns[i] = "returned"]
    ELSE [c EXCEPT !.turns[i] = "inflight", !.enabled = FALSE, !.value = <<>>]

\* chat_ui.py:131-133, 161-172  every way the turn ends runs `finally`
SendMessageEnd(c, i) == [c EXCEPT !.turns[i] = "ended", !.enabled = TRUE]

\* chat_ui.py:201-203  the user types into the input; the change of a
\* disabled input is ignored
PageType ==
    /\ ui.pc = "page" /\ ui.enabled
    /\ \E m \in Messages : ui' = [ui EXCEPT !.value = m]
    /\ UNCHANGED <<relay, chats, ing, poll>>

\* chat_ui.py:205-215  a click on the button or Enter in the input is
\* delivered: the call of send_message is scheduled as a task of the event
\* loop; the events of a disabled widget are ignored
PageEvent(i) ==
    /\ ui.pc = "page" /\ ui.enabled
    /\ ui.turns[i] = "none"
    /\ ui' = [ui EXCEPT !.turns[i] = "scheduled"]
    /\ UNCHANGED <<relay, chats, ing, poll>>

\* the scheduled call runs to its first suspension point
PageStart(i) ==
    /\ ui.pc = "page"
    /\ ui.turns[i] = "scheduled"
    /\ ui' = SendMessageStart(ui, i)
    /\ UNCHANGED <<relay, chats, ing, poll>>

\* chat_ui.py:132, 151, 156-157  the turn writes the response label or the key
PageWrite(i) ==
    /\ ui.pc = "page"
    /\ ui.turns[i] = "inflight"
    /\ Len(ui.writes) < MaxWrites
    /\ ui' = [ui EXCEPT !.writes = Append(@, i)]
    /\ UNCHANGED <<relay, chats, ing, poll>>

\* the turn ends: body exhausted, status other than 200, or an exception
PageEnd(i) ==
    /\ ui.pc = "page"
    /\ ui.turns[i] = "inflight"
    /\ ui' = SendMessageEnd(ui, i)
    /\ UNCHANGED <<relay, chats, ing, poll>>

InitPage ==
    relay = IdleRelay /\ ui = FreshPage /\ chats = NoChats /\ ing = NoIng /\ poll = NoPoll

NextPage ==
    PageType \/ \E i \in 1..MaxEvents : PageEvent(i) \/ PageStart(i) \/ PageWrite(i) \/ PageEnd(i)

\* one page, its user and the calls of send_message
SpecPage == InitPage /\ [][NextPage]_vars

(***************************************************************************)
(* The page polling the status of an upload: check_upload_status.          *)
(***************************************************************************)
\* chat_ui.py:11  max_attempts
max_attempts == 60

\* the values of the "status" field of a status answer: texts in either
\* case, the empty text of a missing field, and null
StatusValues ==
    {<<"p", "r", "o", "c", "e", "s", "s", "i", "n", "g">>, <<"c", "o", "m", "p", "l", "e", "t", "e", "d">>, <<"f", "a", "i", "l", "e", "d">>, <<"F", "a", "i", "l", "e", "d">>, <<"s", "u", "c", "c", "e", "s", "s">>, <<"e", "r", "r", "o", "r">>, <<"p", "e", "n", "d", "i", "n", "g">>,
     <<>>, NoneVal}

\* what one status request can end with: an exception of the client
\* (connection failure, timeout), a status other than 200, a 200 whose body
\* is not JSON, or a 200 with a status value
PollResponses ==
    {[kind |-> "raise", status_code |-> 0, json |-> FALSE, status |-> NoneVal]}
      \cup {[kind |-> "response", status_code |-> c, json |-> TRUE, status |-> NoneVal] :
               c \in {404, 500}}
      \cup {[kind |-> "response", status_code |-> 200, json |-> FALSE, status |-> NoneVal]}
      \cup {[kind |-> "response", status_code |-> 200, json |-> TRUE, status |-> v] :
               v \in StatusValues}

NoResponse == [kind |-> "none", status_code |-> 0, json |-> FALSE, status |-> NoneVal]

\* chat_ui.py:15, 43-45  the loop condition, and the timeout after the loop
LoopHead(p) ==
    IF p.attempt < max_attempts THEN [p EXCEPT !.pc = "sleeping"]
    ELSE [p EXCEPT !.pc = "done", !.label = "Timeout"]

\* chat_ui.py:39  attempt += 1, then the next iteration
Attempted(p) == LoopHead([p EXCEPT !.attempt = @ + 1])

\* faulty variant: a failing request is not counted
OnPollErrorNotCounted(p) == LoopHead(p)

\* chat_ui.py:40-41  except Exception: attempt += 1
OnPollError(p) == Attempted(p)

\* chat_ui.py:23-41  what the iteration does with the outcome of its request
OnPollResponse(p, resp) ==
    LET q == [p EXCEPT !.response = resp] IN
    IF resp.kind = "raise" THEN OnPollError(q)
    ELSE IF resp.status_code # 200 THEN Attempted(q)
    ELSE IF ~resp.json \/ resp.status = NoneVal THEN OnPollError(q)
    ELSE LET status_value == Lower(resp.status) IN
         IF Contains(status_value, <<"c", "o", "m", "p", "l", "e", "t", "e", "d">>)
              \/ Contains(status_value, <<"s", "u", "c", "c", "e", "s", "s">>)
           THEN [q EXCEPT !.pc = "done", !.label = "Ready"]
         ELSE IF Contains(status_value, <<"f", "a", "i", "l", "e", "d">>)
              \/ Contains(status_value, <<"e", "r", "r", "o", "r">>)
           THEN [q EXCEPT !.pc = "done", !.label = "Failed"]
         ELSE Attempted([q EXCEPT !.label = "Processing..."])

\* chat_ui.py:11-15, 79  the call of check_upload_status with the row's label
FreshPoll ==
    LoopHead([pc |-> "start", attempt |-> 0, requests |-> 0, label |-> "Processing...",
              response |-> NoResponse])

\* chat_ui.py:16-21  the sleep ends and the status request is sent
PollRequest ==
    /\ poll.pc = "sleeping"
    /\ poll' = [poll EXCEPT !.pc = "waiting", !.requests = @ + 1]
    /\ UNCHANGED <<relay, ui, chats, ing>>

\* chat_ui.py:19-41  the request returns or raises within the client's timeout
PollResponse ==
    /\ poll.pc = "waiting"
    /\ \E resp \in PollResponses : poll' = OnPollResponse(poll, resp)
    /\ UNCHANGED <<relay, ui, chats, ing>>

InitPoll ==
    relay = IdleRelay /\ ui = NoUi /\ chats = NoChats /\ ing = NoIng /\ poll = FreshPoll

NextPoll == PollRequest \/ PollResponse

\* the polling of one upload; the sleep of five seconds ends and the client's
\* timeout of ten seconds ends every request
SpecPoll == InitPoll /\ [][NextPoll]_vars /\ WF_vars(PollRequest) /\ WF_vars(PollResponse)

(***************************************************************************)
(* Properties.                                                             *)
(***************************************************************************)
\* the kind of the last frame of r, "none" when it has none
LastKind(r) == IF r.frames = <<>> THEN "none" ELSE r.frames[Len(r.frames)].kind

\* the texts of the frames i..j of r, as written after "data: "
PayloadTexts(r, i, j) == [k \in 1..(j - i + 1) |-> Str(r.frames[i + k - 1].payload)]

\* the chunks of a list that are not skipped by `if chunk:`
TruthyChunks(cs) == SelectSeq(cs, Truthy)

\* C1: a stream run to completion is zero or more content frames followed by
\* exactly one terminal frame (session or error); nothing follows the
\* terminal frame, and a stream still running holds content frames only.
C1_FrameOrdering ==
    /\ \A i \in 1..(Len(relay.frames) - 1) : relay.frames[i].kind = "content"
    /\ relay.pc = "closed" => LastKind(relay) \in {"session", "error"}
    /\ relay.pc # "closed" => LastKind(relay) \in {"none", "content"}

\* a completed stream with two content frames and a terminal frame
C1_Witness ==
    /\ relay.pc = "closed"
    /\ Len(relay.frames) = 3
    /\ relay.frames[2].kind = "content"

\* C2: when the producer raises after N content frames (at the call, at the
\* awaited handshake or while iterated), the stream is those N content frames,
\* then exactly one error frame carrying the message, and no session frame.
C2_RaiseEndsWithOneErrorFrame ==
    relay.failure.stage \in {"invoke", "await", "iterate"} =>
        LET n == Len(TruthyChunks(relay.produced))
        IN  /\ relay.pc = "closed"
            /\ relay.failure.n = n
            /\ Len(relay.frames) = n + 1
            /\ \A i \in 1..n :
                 relay.frames[i] =
                    [kind |-> "content", payload |-> ExtractText(TruthyChunks(relay.produced)[i])]
            /\ relay.frames[n + 1] =
                    [kind |-> "error", payload |-> ErrorPayload(relay.failure.msg)]
            /\ \A i \in 1..(n + 1) : relay.frames[i].kind # "session"

\* the producer raised while iterated, after a content frame
C2_Witness ==
    /\ relay.failure.stage = "iterate"
    /\ Len(relay.frames) = 2
    /\ relay.frames[1].kind = "content"

\* C3: non-empty text fragments yielded without failure give one content
\* frame each, in order, written "data: <fragment>" and a blank line, then the
\* session frame; the payloads concatenated equal the fragments concatenated.
C3_OneFramePerTextFragment ==
    ( /\ relay.pc = "closed"
      /\ relay.failure.stage = "none"
      /\ \A i \in 1..Len(relay.produced) : relay.produced[i] \in NonEmptyTextFrags ) =>
        LET n == Len(relay.produced)
            texts == [i \in 1..n |-> relay.produced[i].val]
        IN  /\ Len(relay.frames) = n + 1
            /\ \A i \in 1..n : relay.frames[i] = [kind |-> "content", payload |-> texts[i]]
            /\ relay.frames[n + 1].kind = "session"
            /\ relay.wire =
                 Concat([i \in 1..n |-> DataPrefix \o texts[i] \o Delim])
                     \o DataPrefix \o relay.frames[n + 1].payload \o Delim
            /\ Concat(PayloadTexts(relay, 1, n)) = Concat(texts)

\* two non-empty text fragments were relayed and the stream is complete
C3_Witness ==
    /\ relay.pc = "closed"
    /\ relay.failure.stage = "none"
    /\ Len(relay.produced) = 2
    /\ \A i \in 1..2 : relay.produced[i] \in NonEmptyTextFrags
    /\ relay.produced[1] # relay.produced[2]

\* C4: the session frame carries the request's session_id, unaltered, when
\* one is supplied non-empty, and a generated non-empty identifier when the
\* request carries none.
C4_SessionFrameKey ==
    LastKind(relay) = "session" =>
        LET payload == relay.frames[Len(relay.frames)].payload
        IN  /\ TruthyText(relay.session_id) =>
                 payload = <<"\n">> \o Marker \o relay.session_id \o MarkerEnd
            /\ relay.session_id = NoneVal =>
                 \E u \in Uuids : u # <<>> /\ payload = <<"\n">> \o Marker \o u \o MarkerEnd

\* a stream for a request with a supplied key ended with its session frame
C4_Witness ==
    /\ LastKind(relay) = "session"
    /\ relay.session_id = <<"s", "1">>

\* C5: whatever the reads the body is cut into, the consumer has processed
\* the same payloads, shows the same text and stores the same session key as
\* when the same bytes arrive in one read.
C5_ReadCutsDoNotMatter ==
    LET whole == Feed(StartOfBody, SubSeq(relay.wire, 1, ui.pos))
    IN  /\ ui.processed = whole.processed
        /\ ui.session_id = whole.session_id
        /\ ui.response_content = whole.response_content
        /\ ui.buffer = whole.buffer

\* a read has ended between the two newlines that end a session frame, after
\* an earlier frame was processed from an earlier read
C5_Witness ==
    /\ ui.pc = "streaming"
    /\ Len(ui.processed) = 1
    /\ Contains(ui.buffer, Marker)
    /\ ui.buffer[Len(ui.buffer)] = "\n"
    /\ ui.pos < Len(relay.wire)
    /\ relay.wire[ui.pos + 1] = "\n"

\* C6: after a turn whose stream ended with the session frame for key K, the
\* page stores K, its next request sends session_id = K, and the relay hands
\* a supplied key unchanged to the producer.
C6_SurfacedKeyIsKeptAndSentBack ==
    [][ /\ (ui.pc = "ready" /\ relay.pc = "closed" /\ LastKind(relay) = "session") =>
              /\ ui.session_id = relay.user_id
              /\ relay' # relay => relay'.session_id = relay.user_id
        /\ (TruthyText(relay.session_id) /\ relay.calls # <<>>) =>
              relay.calls[1].user_id = relay.session_id ]_vars

\* C7: no frame is emitted for a fragment whose extracted text is empty or
\* missing, whatever its shape: every content frame carries a non-empty text.
C7_NoFrameForEmptyText ==
    \A i \in 1..Len(relay.frames) :
        relay.frames[i].kind = "content" => TruthyText(relay.frames[i].payload)

\* C8: at the end of a successful stream the page has processed one payload
\* per frame the relay emitted, identical and in order, and shows the
\* fragments concatenated, followed by the text before the session marker.
C8_PageProcessesEveryFrame ==
    (ui.pc = "ready" /\ relay.pc = "closed" /\ LastKind(relay) = "session") =>
        LET n == Len(relay.frames)
        IN  /\ ui.processed = PayloadTexts(relay, 1, n)
            /\ ui.response_content = Concat(PayloadTexts(relay, 1, n - 1)) \o <<"\n">>

\* C9: when create_agent raises, the answer is status 500 with a detail, no
\* stream is opened, no frame is written and the producer is never invoked.
C9_CreateFailureIs500 ==
    relay.create = "raise" =>
        /\ relay.status = 500
        /\ relay.pc = "http500"
        /\ \E e \in CreateErrMsgs : relay.detail = CreateFailHead \o e
        /\ relay.frames = <<>>
        /\ relay.wire = <<>>
        /\ relay.calls = <<>>

\* create_agent raised for a request
C9_Witness == relay.create = "raise" /\ relay.pc = "http500"

\* C10: once create_agent has succeeded the status is 200 whatever the
\* producer does; a producer failure of any kind is reported by an error
\* frame in the stream.
C10_ProducerFailureKeeps200 ==
    relay.create = "ok" =>
        /\ relay.status = 200
        /\ relay.failure.stage # "none" =>
              /\ relay.pc = "closed"
              /\ LastKind(relay) = "error"

\* the producer resolved to something that cannot be iterated
C10_Witness ==
    /\ relay.create = "ok"
    /\ relay.failure.stage = "aiter"
    /\ relay.status = 200

\* the bytes of the frames of r, each written whole
WholeFrames(r) ==
    Concat([i \in 1..Len(r.frames) |-> DataPrefix \o Str(r.frames[i].payload) \o Delim])

\* C11: when the client disconnects after k frames, the relay asks the
\* producer for nothing more and emits no further frame of any kind, and
\* the bytes written are whole frames.
C11_NothingAfterDisconnect ==
    /\ [](relay.pc = "cancelled" =>
            /\ relay.wire = WholeFrames(relay)
            /\ \A i \in 1..Len(relay.frames) : relay.frames[i].kind = "content")
    /\ [][relay'.pc = "cancelled" =>
            /\ relay'.frames = relay.frames
            /\ relay'.wire = relay.wire
            /\ relay'.produced = relay.produced
            /\ relay'.calls = relay.calls]_vars

\* the client disconnected while the producer was iterated, after one frame
C11_Witness ==
    /\ relay.pc = "cancelled"
    /\ relay.source = "asyncgen"
    /\ Len(relay.frames) = 1

\* the frames request r must have written, given what its own producer did
OwnFrames(r) ==
    LET cs == TruthyChunks(r.produced)
        content == [k \in 1..Len(cs) |-> [kind |-> "content", payload |-> ExtractText(cs[k])]]
    IN  CASE r.pc = "closed" /\ r.failure.stage = "none" ->
               content \o <<[kind |-> "session", payload |-> SessionPayload(r.calls[1].user_id)]>>
          [] r.pc = "closed" ->
               content \o <<[kind |-> "error", payload |-> ErrorPayload(r.failure.msg)]>>
          [] OTHER -> content

\* C12 as stated: each of two interleaved streams holds the frames of its
\* own producer run and its own key, and serving them writes no state
\* shared between the requests.
C12_NoSharedStateWritten ==
    /\ [](\A i \in 1..2 : chats.reqs[i].frames = OwnFrames(chats.reqs[i]))
    /\ [][ /\ chats'.db = chats.db
           /\ chats'.contents_db = chats.contents_db
           /\ chats'.knowledge = chats.knowledge ]_vars

\* C12 amended: each of two interleaved streams holds exactly the frames of
\* its own producer run, in order, written whole, and its session frame
\* carries the key resolved for its own request; the only state shared
\* between requests that serving them writes are the globals _db,
\* _contents_db and _knowledge, each set once by create_agent and never
\* changed afterwards.
C12_StreamsIsolatedGlobalsSetOnce ==
    /\ [](\A i \in 1..2 :
            LET r == chats.reqs[i]
            IN  /\ r.frames = OwnFrames(r)
                /\ r.wire = WholeFrames(r)
                /\ (r.calls # <<>> /\ TruthyText(r.session_id)) =>
                       r.calls[1].user_id = r.session_id)
    /\ [][ /\ chats.db # NoHandle => chats'.db = chats.db
           /\ chats.contents_db # NoHandle => chats'.contents_db = chats.contents_db
           /\ chats.knowledge # NoHandle => chats'.knowledge = chats.knowledge
           /\ chats'.settings = chats.settings
           /\ (chats'.db # chats.db \/ chats'.knowledge # chats.knowledge) =>
                 \E i \in 1..2 : chats.reqs[i].pc = "idle" /\ chats'.reqs[i].pc # "idle" ]_vars

\* both streams are complete, with different fragments and different keys,
\* each ending with its own session frame
C12_Witness ==
    /\ \A i \in 1..2 : chats.reqs[i].pc = "closed" /\ LastKind(chats.reqs[i]) = "session"
    /\ chats.reqs[1].user_id # chats.reqs[2].user_id
    /\ chats.reqs[1].produced # chats.reqs[2].produced
    /\ Len(chats.reqs[1].produced) = 2

\* the name ends in a dot followed by p, d, f, each in either letter case
HasPdfSuffixAnyCase(name) ==
    LET n == Len(name)
    IN  /\ n >= 4
        /\ name[n - 3] = "."
        /\ name[n - 2] \in {"p", "P"}
        /\ name[n - 1] \in {"d", "D"}
        /\ name[n] \in {"f", "F"}

\* C13: an upload is answered 400 `Only PDF files are allowed` exactly when
\* its filename is missing, empty or does not end in .pdf in some letter
\* case; the rejected upload has no file_id, no path, no indexing call, and
\* the step that rejects it leaves the upload directory and the knowledge
\* base as they were.
C13_NonPdfRejectedWithoutEffect ==
    /\ [](\A i \in 1..2 :
            LET u == ing.ups[i]
            IN  /\ u.pc # "idle" =>
                     (u.pc = "http400" <=>
                        ~(TruthyText(u.filename) /\ HasPdfSuffixAnyCase(u.filename)))
                /\ u.pc = "http400" =>
                     /\ u.status = 400 /\ u.detail = OnlyPdfDetail
                     /\ u.file_id = NoneVal /\ u.path = NoneVal /\ u.worker = "none")
    /\ [][\A i \in 1..2 :
            (ing.ups[i].pc = "idle" /\ ing'.ups[i].pc = "http400") =>
                /\ ing'.files = ing.files
                /\ ing'.contents = ing.contents]_vars

\* one upload named a.txt was rejected while the other, named a.PDF, passed
\* validation and has its file stored
C13_Witness ==
    /\ ing.ups[1].pc = "http400"
    /\ ing.ups[1].filename = <<"a", ".", "t", "x", "t">>
    /\ ing.ups[2].filename = <<"a", ".", "P", "D", "F">>
    /\ ing.ups[2].pc = "indexing"
    /\ ing.ups[2].path \in DOMAIN ing.files

\* C14 as stated: an upload that ended without success (500, or cancelled)
\* after its path was chosen has no file left at that path.
C14_NoOrphanedFile ==
    \A i \in 1..2 :
        (ing.ups[i].pc \in {"http500", "cancelled"} /\ ing.ups[i].path # NoneVal) =>
            ing.ups[i].path \notin DOMAIN ing.files

\* s is an initial part of t
IsPrefix(s, t) == Len(s) <= Len(t) /\ SubSeq(t, 1, Len(s)) = s

\* C15: two uploads store under different paths, also when their filenames
\* are equal; the file of an upload only ever holds bytes of that upload; and
\* the step that answers one upload 500 removes at most its own file and
\* leaves every other file as it was.
C15_SameNameUploadsIsolated ==
    /\ [](/\ (ing.ups[1].path # NoneVal /\ ing.ups[2].path # NoneVal) =>
                ing.ups[1].path # ing.ups[2].path
          /\ \A i \in 1..2 :
                ing.ups[i].path \in DOMAIN ing.files =>
                    IsPrefix(ing.files[ing.ups[i].path], UploadBodies[i]))
    /\ [][\A i \in 1..2 :
            (ing.ups[i].pc # "http500" /\ ing'.ups[i].pc = "http500") =>
                \A p \in (DOMAIN ing.files) \ {ing.ups[i].path} :
                    p \in DOMAIN ing'.files /\ ing'.files[p] = ing.files[p]]_vars

\* two uploads of the same filename: the indexing call of the first raised
\* and its file was removed, the file of the second is whole
C15_Witness ==
    /\ ing.ups[1].filename = ing.ups[2].filename
    /\ ing.ups[1].pc = "http500" /\ ing.ups[1].worker = "raised"
    /\ ing.ups[1].path \notin DOMAIN ing.files
    /\ ing.ups[2].path \in DOMAIN ing.files
    /\ ing.files[ing.ups[2].path] = UploadBodies[2]

\* C16 as stated: while the add_content call of an upload is running in its
\* executor thread, the event loop is free to run other handlers.
C16_LoopFreeWhileIndexing ==
    \A i \in 1..2 : ing.ups[i].worker = "running" => ing.loop = "free"

\* some content of the list has the metadata file_id f
Listed(listed, f) == \E k \in 1..Len(listed) : listed[k].metadata.file_id = f

\* C17 as stated: every answer to a status request for F is 404 `File with
\* ID F not found` when no listed content has file_id F and 200 otherwise.
C17_Status404Or200 ==
    (ing.q.kind = "status" /\ ing.q.status # 0) =>
        IF Listed(ing.q.listed, ing.q.file_id)
        THEN ing.q.status = 200
        ELSE ing.q.status = 404 /\ ing.q.detail = NotFoundDetail(ing.q.file_id)

\* C17 amended: when get_content returns, the status request for F is
\* answered 404 `File with ID F not found` exactly when no listed content has
\* file_id F; otherwise the handler asks the status of the first such
\* content and, when that call returns, answers 200 with it; a 500 is given
\* only when get_knowledge, get_content or get_content_status raised, and
\* carries that exception's message, never the 404.
C17_Status404IffNoMatch ==
    /\ [][(ing.q.kind = "status" /\ ing.q.pc = "listing"
             /\ ing'.q.pc \notin {"listing", "http500"}) =>
            /\ ing'.q.listed = ing.contents
            /\ IF Listed(ing.contents, ing.q.file_id)
               THEN ing'.q.pc = "status_wait"
               ELSE /\ ing'.q.pc = "http404" /\ ing'.q.status = 404
                    /\ ing'.q.detail = NotFoundDetail(ing.q.file_id)]_vars
    /\ [][(ing.q.kind = "status" /\ ing.q.pc = "status_wait" /\ ing'.q.pc = "http200") =>
            \E k \in 1..Len(ing.q.listed) :
                /\ ing.q.listed[k].metadata.file_id = ing.q.file_id
                /\ \A j \in 1..(k - 1) : ing.q.listed[j].metadata.file_id # ing.q.file_id
                /\ ing'.q.status = 200
                /\ ing'.q.body = [file_id |-> ing.q.file_id,
                                  status |-> ing.contents[ing.q.listed[k].id].status]]_vars
    /\ []((ing.q.kind = "status" /\ ing.q.pc = "http500") =>
            ing.q.detail \in {StatusFailHead \o e : e \in ErrMsgs})
    /\ []((ing.q.kind = "status" /\ ing.q.status = 404) => ~Listed(ing.q.listed, ing.q.file_id))

\* a status request was answered 404 although the list held the content of
\* an upload: that content has another file_id
C17_Witness ==
    /\ ing.q.kind = "status" /\ ing.q.pc = "http404"
    /\ ing.q.file_id \in Uuids
    /\ \E k \in 1..Len(ing.q.listed) : ing.q.listed[k].metadata.type = "pdf"

\* C18: the status of a stored content changes only in steps of the
\* knowledge base in which no handler of upload.py moves; a step of a status
\* or list request leaves the stored contents and the upload directory as
\* they were; no content is removed.
C18_StatusOwnedByPipeline ==
    [][ /\ Len(ing'.contents) >= Len(ing.contents)
        /\ (\E k \in 1..Len(ing.contents) :
               ing'.contents[k].status # ing.contents[k].status) =>
              /\ ing'.ups = ing.ups
              /\ ing'.q = ing.q
              /\ ing'.files = ing.files
        /\ ing'.q # ing.q =>
              /\ ing'.contents = ing.contents
              /\ ing'.files = ing.files ]_vars

\* a list request was answered with the two uploaded contents, one of which
\* the knowledge base had moved to failed
C18_Witness ==
    /\ ing.q.kind = "list" /\ ing.q.pc = "http200"
    /\ Len(ing.q.uploads) = 2
    /\ \E k \in 1..2 : ing.q.uploads[k].status = "failed"
    /\ \A i \in 1..2 : ing.ups[i].pc = "http200"

\* C19: a send that disabled the input and the button is followed by their
\* re-enabling, whatever the outcome of the turn; a turn that ended shows
\* `Error: ...` after a non-200 response or another exception and
\* `Connection error: ...` after a transport failure; and once a turn has
\* ended nothing more is processed until the next send.
C19_WidgetsReenabled ==
    /\ (~ui.enabled) ~> ui.enabled
    /\ [](ui.pc = "ready" <=> ui.enabled)
    /\ []((ui.pc = "ready" /\ ui.status_label = "Connection failed") =>
              \E e \in TransportErrMsgs : ui.response_content = ConnErrHead \o e)
    /\ []((ui.pc = "ready" /\ ui.status_label = "Error occurred") =>
              StartsWith(ui.response_content, OtherErrHead))
    /\ [][(ui.pc = "awaiting" /\ relay.status # 200 /\ ui'.pc = "ready") =>
              ui'.status_label \in {"Error occurred", "Connection failed"}]_vars
    /\ [][(ui.pc = "ready" /\ ui'.pc = "ready") => ui' = ui]_vars

\* the transport failed after the page had processed one frame: the error is
\* shown and the widgets are enabled again
C19_Witness ==
    /\ ui.pc = "ready" /\ ui.enabled
    /\ ui.status_label = "Connection failed"
    /\ Len(ui.processed) = 1
    /\ relay.pc = "iterate"

\* the value of a text that is not well-formed JSON
Malformed == <<"<malformed>">>

\* the character a JSON escape \d stands for ("<none>" when \d is no escape)
JsonEscape(d) ==
    CASE d \in {"\"", "\\", "/"} -> d
      [] d = "n" -> "\n"
      [] d = "t" -> "\t"
      [] d = "r" -> "\r"
      [] d = "f" -> "\f"
      [] d = "b" -> "<backspace>"
      [] OTHER -> "<none>"

\* the text a JSON string literal decodes to, read from s[i] (just after the
\* opening quote) up to its closing quote, which must be followed by "}" and
\* the end of s; Malformed when s is not such a literal
RECURSIVE JsonStringToEnd(_, _, _)
JsonStringToEnd(s, i, acc) ==
    CASE i > Len(s) -> Malformed
      [] s[i] = "\"" -> IF SubSeq(s, i + 1, Len(s)) = <<"}">> THEN acc ELSE Malformed
      [] s[i] = "\\" ->
           IF i + 1 > Len(s) \/ JsonEscape(s[i + 1]) = "<none>" THEN Malformed
           ELSE JsonStringToEnd(s, i + 2, Append(acc, JsonEscape(s[i + 1])))
      [] s[i] \in {"\n", "\t", "\r", "\f"} -> Malformed
      [] OTHER -> JsonStringToEnd(s, i + 1, Append(acc, s[i]))

\* the detail field of the JSON object {"error": "Agent error", "detail": "..."}
\* that payload is, Malformed when payload is no such object
JsonDetail(payload) ==
    IF StartsWith(payload, ErrHead) THEN JsonStringToEnd(payload, Len(ErrHead) + 1, <<>>)
    ELSE Malformed

\* C20 as stated: the payload of every error frame is a well-formed JSON
\* object with error = "Agent error" whose detail decodes to the message of
\* the exception raised.
C20_ErrorPayloadDecodesToMessage ==
    \A k \in 1..Len(relay.frames) :
        relay.frames[k].kind = "error" =>
            JsonDetail(relay.frames[k].payload) = relay.failure.msg

\* the contents stored with the metadata file_id f
StoredFor(contents, f) == {k \in 1..Len(contents) : contents[k].metadata.file_id = f}

\* C21: an upload answered 200 returns the generated id and the filename of
\* the request; the stored file is named <file_id>_<filename>; exactly one
\* content was registered for it, with that file_id and filename; and a
\* status request for the returned file_id whose list call returns finds
\* that content.
C21_AnswerMatchesRegistration ==
    /\ [](\A i \in 1..2 :
            LET u == ing.ups[i]
            IN  u.pc = "http200" =>
                  /\ u.answer.file_id \in Uuids
                  /\ \A j \in 1..2 : j # i => ing.ups[j].file_id # u.answer.file_id
                  /\ u.answer.filename = u.filename
                  /\ u.path = Concat(<<u.answer.file_id, <<"_">>, u.answer.filename>>)
                  /\ u.path \in DOMAIN ing.files
                  /\ Cardinality(StoredFor(ing.contents, u.answer.file_id)) = 1
                  /\ \A k \in StoredFor(ing.contents, u.answer.file_id) :
                        ing.contents[k].metadata =
                            [filename |-> u.answer.filename, file_id |-> u.answer.file_id,
                             type |-> "pdf"])
    /\ [][\A i \in 1..2 :
            (/\ ing.ups[i].pc = "http200"
             /\ ing.q.kind = "status" /\ ing.q.file_id = ing.ups[i].answer.file_id
             /\ ing.q.pc = "listing" /\ ing'.q.pc \notin {"listing", "http500"}) =>
                /\ ing'.q.pc = "status_wait"
                /\ ing'.q.listed[ing'.q.at].metadata.filename = ing.ups[i].answer.filename]_vars

\* the upload of a.PDF was answered 200 and a status request for the
\* returned file_id was answered 200
C21_Witness ==
    /\ ing.ups[1].pc = "http200"
    /\ ing.ups[1].answer.filename = <<"a", ".", "P", "D", "F">>
    /\ ing.q.kind = "status" /\ ing.q.pc = "http200"
    /\ ing.q.file_id = ing.ups[1].answer.file_id

\* the frames of r with the generated part of a session frame left out
KeyBlind(r) ==
    [k \in 1..Len(r.frames) |->
        IF r.frames[k].kind = "session" /\ ~TruthyText(r.session_id)
        THEN [kind |-> "session", payload |-> <<>>]
        ELSE r.frames[k]]

\* C22: the request sent to /chat/ is handled as the same request sent to
\* /chat/stream: same message, session key, construction outcome, status and
\* detail; and whenever the two producers behaved alike so far, the two
\* streams hold the same frames, up to the value of a generated key.
C22_AliasSameAsStream ==
    LET a == chats.reqs[1]
        b == chats.reqs[2]
    IN  /\ a.message = b.message /\ a.session_id = b.session_id
        /\ a.create = b.create /\ a.status = b.status /\ a.detail = b.detail
        /\ (a.pc = b.pc /\ a.source = b.source /\ a.produced = b.produced
                /\ a.failure = b.failure) =>
              /\ KeyBlind(a) = KeyBlind(b)
              /\ TruthyText(a.session_id) => a.wire = b.wire

\* both endpoints were given the key s1 and producers that yielded the same
\* two fragments; both streams are complete
C22_Witness ==
    /\ \A i \in 1..2 : chats.reqs[i].pc = "closed" /\ LastKind(chats.reqs[i]) = "session"
    /\ chats.reqs[1].session_id = <<"s", "1">>
    /\ chats.reqs[1].produced = chats.reqs[2].produced
    /\ Len(chats.reqs[2].produced) = 2

\* C23: over any sequence of calls, all calls of get_settings that return
\* return one and the same object and at most one Settings object is built;
\* the same holds for get_db, get_contents_db and get_knowledge; an object
\* once stored in its global is never replaced.
C23_InitOnce ==
    /\ [](\A f \in DOMAIN Getters :
            /\ Cardinality(chats.got[f]) <= 1
            /\ chats.got[f] \subseteq {chats[Getters[f]]} \ {NoHandle}
            /\ chats.made[Getters[f]] <= 1)
    /\ [][\A f \in DOMAIN Getters :
            chats[Getters[f]] # NoHandle => chats'[Getters[f]] = chats[Getters[f]]]_vars

\* get_settings and get_knowledge were each called twice and returned
C23_Witness ==
    /\ chats.calls.get_settings = 2 /\ chats.got.get_settings # {}
    /\ chats.calls.get_knowledge = 2 /\ chats.got.get_knowledge # {}
    /\ chats.made.settings = 1 /\ chats.made.knowledge = 1 /\ chats.made.contents_db = 1
    /\ chats.got.get_db # {}

\* C24 as stated: a request whose agent was built and whose response is
\* over, by itself or by cancellation, has had exactly one invocation of the
\* producer.
C24_ExactlyOneInvocation ==
    (relay.create = "ok" /\ relay.pc \in {"closed", "cancelled"}) => Len(relay.calls) = 1

\* C24 amended: the producer is invoked at most once per request, and
\* exactly once as soon as the body of the response has started to run (so
\* before any frame and before the stream ends by itself); never when
\* create_agent failed; the invocation carries the request's message, and
\* the session frame of the stream carries the user key of that invocation.
C24_OneInvocationOnceBodyRuns ==
    /\ Len(relay.calls) <= 1
    /\ (relay.pc \in {"await", "iterate", "closed"} \/ relay.frames # <<>>) =>
          Len(relay.calls) = 1
    /\ relay.create # "ok" => relay.calls = <<>>
    /\ \A k \in 1..Len(relay.calls) : relay.calls[k].input = relay.message
    /\ \A k \in 1..Len(relay.frames) :
          relay.frames[k].kind = "session" =>
              relay.frames[k].payload =
                  Concat(<<<<"\n">>, Marker, relay.calls[1].user_id, MarkerEnd>>)

\* a request without session key was served to its end: one invocation, and
\* the session frame carries the generated key
C24_Witness ==
    /\ relay.pc = "closed" /\ LastKind(relay) = "session"
    /\ relay.session_id = NoneVal
    /\ Len(relay.calls) = 1 /\ relay.calls[1].user_id \in Uuids
    /\ Len(relay.frames) >= 2

\* C25: request 1, whose producer returned a coroutine, is iterated like
\* request 2, whose producer returned an async generator: no failure of the
\* iteration protocol, and whenever the two have the same key and their
\* producers yielded the same fragments and ended alike, the two streams hold
\* the same frames and the same bytes.
C25_DeferredSameAsReady ==
    LET a == chats.reqs[1]
        b == chats.reqs[2]
    IN  /\ a.failure.stage \in {"none", "iterate"}
        /\ a.pc \in {"iterate", "closed"} => a.source = "asyncgen"
        /\ (/\ a.pc = b.pc /\ a.pc \in {"iterate", "closed"}
            /\ a.user_id = b.user_id
            /\ a.produced = b.produced
            /\ a.failure = b.failure) =>
              /\ a.frames = b.frames
              /\ a.wire = b.wire

\* both streams are complete with the same generated key and the same two
\* fragments
C25_Witness ==
    /\ \A i \in 1..2 : chats.reqs[i].pc = "closed" /\ LastKind(chats.reqs[i]) = "session"
    /\ chats.reqs[1].session_id = NoneVal
    /\ chats.reqs[1].user_id = chats.reqs[2].user_id
    /\ chats.reqs[1].produced = chats.reqs[2].produced
    /\ Len(chats.reqs[1].produced) = 2
    /\ chats.reqs[1].wire # <<>>

\* C26 as stated: the payload of the k-th content frame is the text of the
\* k-th fragment that was not skipped, and it is a text.
C26_ContentPayloadIsFragmentText ==
    LET cs == TruthyChunks(relay.produced)
    IN  \A k \in 1..Len(relay.frames) :
            relay.frames[k].kind = "content" =>
                /\ relay.frames[k].payload = cs[k].val
                /\ relay.frames[k].payload # NoneVal

\* the text of payload before the first session marker
BeforeMarker(payload) == SubSeq(payload, 1, FindFrom(payload, Marker, 1) - 1)

\* the text of payload between the first session marker and the next "__"
\* (to the end when there is none)
KeyAfterMarker(payload) ==
    LET rest == SubSeq(payload, FindFrom(payload, Marker, 1) + Len(Marker), Len(payload))
        j == FindFrom(rest, MarkerEnd, 1)
    IN  IF j = 0 THEN rest ELSE SubSeq(rest, 1, j - 1)

\* what the page displays for a processed payload
Displayed(payload) ==
    IF FindFrom(payload, Marker, 1) # 0 THEN BeforeMarker(payload) ELSE payload

\* the key stored after the payloads ps were processed, starting from key
RECURSIVE KeyAfter(_, _)
KeyAfter(ps, key) ==
    IF ps = <<>> THEN key
    ELSE KeyAfter(Tail(ps),
                  IF FindFrom(Head(ps), Marker, 1) # 0 THEN KeyAfterMarker(Head(ps)) ELSE key)

\* C27: the page shows, for each payload it processed, the whole payload
\* when it holds no session marker and the text before the marker when it
\* does, so nothing of a marker or key; the stored key is the text between
\* the marker and the next "__" of the last processed payload that holds a
\* marker, and the initial key when no processed payload holds one.
C27_MarkerSplitsDisplayAndKey ==
    /\ ui.response_content =
          Concat([k \in 1..Len(ui.processed) |-> Displayed(ui.processed[k])])
    /\ ui.session_id = KeyAfter(ui.processed, NoneVal)
    /\ ~Contains(ui.response_content, Marker)

\* a session frame and then a content frame were processed: the key of the
\* first is stored, the text before its marker and the content are shown
C27_Witness ==
    /\ Len(ui.processed) = 2
    /\ Contains(ui.processed[1], Marker) /\ ~Contains(ui.processed[2], Marker)
    /\ ui.session_id = <<"k">>
    /\ ui.response_content = <<"\n", "x">>

\* the content has the metadata type pdf
IsPdfContent(content) == content.metadata.type = "pdf"

\* C28: a list request answered 200 returns one entry for each listed
\* content whose metadata type is pdf, in the order of the list, with that
\* content's file_id and filename and a status of the knowledge base, and
\* total is the number of entries; a list request answered 500 returns no
\* entries, and a raising status read ends the request with 500.
C28_ListEntriesAndTotal ==
    /\ []((ing.q.kind = "list" /\ ing.q.pc = "http200") =>
            LET pdfs == SelectSeq(ing.q.listed, IsPdfContent)
                ups == ing.q.body.uploads
            IN  /\ Len(ups) = Len(pdfs)
                /\ \A k \in 1..Len(ups) :
                      /\ ups[k].file_id = pdfs[k].metadata.file_id
                      /\ ups[k].filename = pdfs[k].metadata.filename
                      /\ ups[k].status \in {"processing", "completed", "failed"}
                /\ ing.q.body.total = Len(ups))
    /\ []((ing.q.kind = "list" /\ ing.q.pc = "http500") =>
            /\ ing.q.body = <<>>
            /\ ing.q.detail \in {ListFailHead \o e : e \in ErrMsgs})
    /\ [][(ing.q.kind = "list" /\ ing.q.pc = "status_wait" /\ ing'.q # ing.q
             /\ Len(ing'.q.uploads) = Len(ing.q.uploads)) =>
            ing'.q.pc = "http500" /\ ing'.q.status = 500]_vars

\* the knowledge base listed three contents, one of them not a pdf; the
\* answer holds the two pdf entries and total 2
C28_Witness ==
    /\ ing.q.kind = "list" /\ ing.q.pc = "http200"
    /\ Len(ing.q.listed) = 3
    /\ ing.q.body.total = 2
    /\ ~IsPdfContent(ing.q.listed[1])

\* the status value of the response last handled holds one of the two words
SawWord(p, w1, w2) ==
    /\ p.response.kind = "response" /\ p.response.status_code = 200
    /\ p.response.json /\ p.response.status # NoneVal
    /\ \/ Contains(Lower(p.response.status), w1)
       \/ Contains(Lower(p.response.status), w2)

\* C29: the polling ends; it sends at most 60 status requests; every
\* iteration either returns or increases the attempt counter by one, also
\* when the request raises or is answered with another status than 200; and
\* it ends with the label Ready after a status with completed or success,
\* Failed after a status with failed or error, or Timeout after 60 attempts.
C29_PollingTerminates ==
    /\ <>(poll.pc = "done")
    /\ [](poll.requests <= max_attempts /\ poll.attempt <= max_attempts)
    /\ [][poll.pc = "waiting" =>
            \/ poll'.pc = "done" /\ poll'.attempt = poll.attempt
                 /\ poll'.label \in {"Ready", "Failed"}
            \/ poll'.attempt = poll.attempt + 1]_vars
    /\ [](poll.pc = "done" =>
            /\ poll.label \in {"Ready", "Failed", "Timeout"}
            /\ poll.label = "Ready" <=>
                 SawWord(poll, <<"c", "o", "m", "p", "l", "e", "t", "e", "d">>, <<"s", "u", "c", "c", "e", "s", "s">>)
            /\ poll.label = "Failed" <=>
                 (SawWord(poll, <<"f", "a", "i", "l", "e", "d">>, <<"e", "r", "r", "o", "r">>)
                    /\ ~SawWord(poll, <<"c", "o", "m", "p", "l", "e", "t", "e", "d">>, <<"s", "u", "c", "c", "e", "s", "s">>))
            /\ poll.label = "Timeout" <=> poll.attempt = max_attempts)
    /\ [][poll.pc = "done" => poll' = poll]_vars

\* sixty requests were made, the last of them raised, and the label is Timeout
C29_Witness ==
    /\ poll.pc = "done" /\ poll.label = "Timeout"
    /\ poll.requests = max_attempts
    /\ poll.response.kind = "raise"

\* C30: a turn of the page that ends while the last frame of its stream is
\* not a session frame (status other than 200, transport failure, error
\* frame) leaves the stored session key as the turn sent it, and the next
\* turn sends the stored key.
C30_FailedTurnKeepsKey ==
    /\ [][(ui.pc # "ready" /\ ui'.pc = "ready" /\ LastKind(relay) # "session") =>
            ui'.session_id = relay.session_id]_vars
    /\ [][(ui.pc = "ready" /\ ui'.pc = "awaiting") =>
            relay'.session_id = ui.session_id]_vars

\* the calls of send_message that are between their POST and their end
InFlight == {i \in 1..MaxEvents : ui.turns[i] = "inflight"}

\* C31: on one page at most one turn is in flight; the widgets are disabled
\* exactly while a turn is in flight; a write to the response or to the key
\* is made by the only turn in flight; and the writes of two turns never
\* interleave.
C31_OneTurnInFlight ==
    /\ [](Cardinality(InFlight) <= 1)
    /\ [](ui.enabled <=> InFlight = {})
    /\ [][ui'.writes # ui.writes =>
            InFlight = {ui'.writes[Len(ui'.writes)]}]_vars
    /\ [](\A a, b, c \in 1..Len(ui.writes) :
            (a < b /\ b < c /\ ui.writes[a] = ui.writes[c]) => ui.writes[b] = ui.writes[a])

\* two calls were scheduled before either ran (a double click); one is in
\* flight and has written, the other returned on the cleared input
C31_Witness ==
    /\ \E i, j \in 1..MaxEvents :
         /\ ui.turns[i] = "inflight" /\ ui.turns[j] = "returned"
         /\ ui.writes # <<>> /\ ui.writes[1] = i
    /\ ~ui.enabled

=============================================================================
